---- MODULE Spec2Model ----
(***************************************************************************)
(* MemoryKernel: the multi-agent-center orchestrator (execute_workflow),   *)
(* its SQLite trace store, and the storage-layer append-only triggers of   *)
(* the trace and outcome databases.                                        *)
(*                                                                         *)
(* Option<T> values are sequences: <<>> is None, <<x>> is Some(x).         *)
(* Store I/O faults other than constraint violations are not modelled.     *)
(***************************************************************************)
EXTENDS Integers, Sequences, FiniteSets, TLC

VARIABLES
    orch,                    \* per execute_workflow call: its local variables and position
    schema,                  \* trace db: names of the installed triggers and checks
    migrations,              \* trace db: schema_migrations rows (versions)
    workflow_snapshots,      \* trace db table, keyed by workflow_hash
    runs,                    \* trace db table, keyed by run_id
    steps,                   \* trace db table
    trace_events,            \* trace db table, in event_seq order
    step_context_packages,   \* trace db table
    step_context_selected,   \* trace db table
    step_context_excluded,   \* trace db table
    step_gate_decisions,     \* trace db table
    provider_calls,          \* trace db table
    proposed_memory_writes,  \* trace db table
    outcome_schema,          \* outcome db: names of the installed tables and triggers
    outcome_migrations,      \* outcome db: schema_migrations rows (versions)
    outcome_events,          \* outcome db table
    outcome_rulesets,        \* outcome db table: ruleset_version -> ruleset
    memory_trust,            \* outcome db table: (memory_id, version) -> snapshot
    outcome_projection_state,\* outcome db table: last_event_seq of projector trust_v0
    replay_report,           \* the ReplayReport of the last replay, until the next append
    gate_decisions,          \* what the last gate_preview returned, until the next write
    clock,                   \* now_utc()
    last_sql,                \* the last raw SQL statement run against a database
    policy_call,             \* an apply_context_permissions call: arguments and result
    append_call,             \* the last append_event call on the outcome db and its Result
    normalize_call           \* a workflow source and what normalizing it, twice, returned

traceTables == <<workflow_snapshots, runs, steps, trace_events, step_context_packages,
                 step_context_selected, step_context_excluded, step_gate_decisions,
                 provider_calls, proposed_memory_writes>>
storeVars == <<schema, migrations, traceTables>>
projectionVars == <<outcome_rulesets, memory_trust, outcome_projection_state, replay_report,
                    gate_decisions, append_call>>
outcomeVars == <<outcome_schema, outcome_migrations, outcome_events, projectionVars>>
vars == <<orch, storeVars, outcomeVars, clock, last_sql, policy_call, normalize_call>>

(***************************************************************************)
(* Bounds                                                                  *)
(***************************************************************************)
HashMod == 251          \* digests are 1..HashMod
MaxClock == 120         \* now_utc() saturates here
MaxSqlRows == 2         \* rows per table in the raw-SQL specification
MaxEvents == 4          \* outcome events appended to the outcome store
MaxWindowEvents == 7    \* outcome events of one key under the ruleset registry
MaxSelected == 2        \* selected items of a package given to the policy

None == <<>>
Some(x) == <<x>>

Min(a, b) == IF a < b THEN a ELSE b

(***************************************************************************)
(* Enumerations of multi-agent-center-domain                               *)
(***************************************************************************)
TraceEventType == <<"run_started", "run_finished", "workflow_normalized", "step_ready",
                    "step_started", "step_input_prepared", "step_permission_pruned",
                    "gate_evaluated", "provider_called", "step_finished",
                    "proposed_memory_write", "replay_started", "replay_finished",
                    "warning", "error">>

EventTypeCode(t) == CHOOSE i \in 1..Len(TraceEventType) : TraceEventType[i] = t

TerminalRunStatus == {"succeeded", "failed", "rejected"}

(***************************************************************************)
(* hash_json: SHA-256 over canonical JSON, as a digest in 1..HashMod of    *)
(* the list of numbers that stand for the serialized fields.               *)
(***************************************************************************)
RECURSIVE HashFold(_, _)
HashFold(h, xs) ==
    IF xs = <<>> THEN h
    ELSE HashFold((h * 31 + Head(xs) + 7) % HashMod, Tail(xs))

hash_json(xs) == 1 + HashFold(17, xs)

OptNum(o) == IF o = None THEN 0 ELSE o[1]

(***************************************************************************)
(* Inputs: the workflows handed to execute_workflow                        *)
(***************************************************************************)
StepKeys == <<"a", "b", "c">>
NumSteps == Len(StepKeys)
StepIdx == 1..NumSteps
KeySet == {StepKeys[i] : i \in StepIdx}

Permissions(types, max, failOnPrune) ==
    [allowed_record_types |-> types, max_context_items |-> max,
     fail_on_permission_prune |-> failOnPrune]

\* AgentDefinition by agent_name: provider binding and permissions
Agents ==
    [planner |-> [provider_name |-> "mock",
                  permissions |-> Permissions({"decision", "constraint"}, Some(2), FALSE)],
     remote  |-> [provider_name |-> "http_json",
                  permissions |-> Permissions({"decision", "constraint"}, Some(2), FALSE)],
     broken  |-> [provider_name |-> "unsupported",
                  permissions |-> Permissions({"decision"}, None, TRUE)]]

\* GatePointDefinition by gate_name
Gates ==
    [audit    |-> [gate_kind |-> "policy", required |-> TRUE],
     advisory |-> [gate_kind |-> "human", required |-> FALSE],
     review   |-> [gate_kind |-> "human", required |-> TRUE]]

StepKinds == {"remote", "mock", "broken", "gated", "ghost_agent", "ghost_gate", "ghost_dep"}
SpecialStepKinds == StepKinds \ {"remote"}

MkStep(i, deps, kind) ==
    [step_key |-> StepKeys[i],
     agent_name |-> CASE kind \in {"mock", "gated"} -> "planner"
                      [] kind = "broken" -> "broken"
                      [] kind = "ghost_agent" -> "ghost"
                      [] OTHER -> "remote",
     depends_on |-> IF kind = "ghost_dep" THEN deps \cup {"zz"} ELSE deps,
     gate_points |-> CASE kind = "gated" -> <<"advisory", "audit", "review">>
                       [] kind = "ghost_gate" -> <<"ghostgate">>
                       [] OTHER -> <<>>]

KindCode(k) ==
    CASE k = "remote" -> 0 [] k = "mock" -> 1 [] k = "broken" -> 2 [] k = "gated" -> 3
      [] k = "ghost_agent" -> 4 [] k = "ghost_gate" -> 5 [] k = "ghost_dep" -> 6

DepsCode(deps) ==
    (IF "a" \in deps THEN 1 ELSE 0) + (IF "b" \in deps THEN 2 ELSE 0)
        + (IF "c" \in deps THEN 4 ELSE 0)

\* normalized_hash = hash_json(normalized_json): distinct workflows of the
\* family get distinct digests (positional code of the serialized steps)
RECURSIVE WorkflowHashFrom(_, _, _)
WorkflowHashFrom(deps, kinds, i) ==
    IF i > NumSteps THEN 1
    ELSE (DepsCode(deps[i]) * 7 + KindCode(kinds[i])) + 56 * WorkflowHashFrom(deps, kinds, i + 1)

\* NormalizedWorkflowEnvelope
MkWorkflow(deps, kinds) ==
    [normalized_hash |-> WorkflowHashFrom(deps, kinds, 1),
     source_yaml_hash |-> 1,             \* hash_bytes of the YAML text as first written
     steps |-> [i \in StepIdx |-> MkStep(i, deps[i], kinds[i])],
     agents |-> Agents,
     gates |-> Gates]

DepGraphs == {d \in [StepIdx -> SUBSET KeySet] : \A i \in StepIdx : StepKeys[i] \notin d[i]}
ForwardGraphs == {d \in DepGraphs : \A i \in StepIdx : d[i] \subseteq {StepKeys[j] : j \in 1..(i - 1)}}

PlainKinds == [i \in StepIdx |-> "remote"]

Workflows ==
    {MkWorkflow(d, PlainKinds) : d \in DepGraphs}
    \cup {MkWorkflow(d, [PlainKinds EXCEPT ![i] = k]) :
            d \in ForwardGraphs, i \in StepIdx, k \in SpecialStepKinds}

(***************************************************************************)
(* multi-agent-center-workflow: validate_workflow                          *)
(***************************************************************************)
\* detect_cycle: steps whose dependencies are all removed are removed, until
\* none is left to remove; remaining maps step_key to its unremoved depends_on
\* detect_cycle with the removal of the ready keys from the other steps'
\* dependencies left out
DetectCycleRemainingKeepDeps(remaining) ==
    LET ready == {k \in DOMAIN remaining : remaining[k] = {}} IN
    [k \in DOMAIN remaining \ ready |-> remaining[k]]

RECURSIVE DetectCycleRemaining(_)
DetectCycleRemaining(remaining) ==
    LET ready == {k \in DOMAIN remaining : remaining[k] = {}} IN
    IF ready = {} THEN remaining
    ELSE DetectCycleRemaining([k \in DOMAIN remaining \ ready |-> remaining[k] \ ready])

detect_cycle(wf) ==
    LET keys == {wf.steps[i].step_key : i \in StepIdx} IN
    DOMAIN DetectCycleRemaining(
        [k \in keys |-> wf.steps[CHOOSE i \in StepIdx : wf.steps[i].step_key = k].depends_on])
        = {}

\* Ok(()) of validate_workflow: every agent, dependency and gate point a step
\* names is defined, and the dependencies have no cycle
validate_workflow(wf) ==
    /\ \A i \in StepIdx : wf.steps[i].agent_name \in DOMAIN wf.agents
    /\ \A i \in StepIdx : \A dep \in wf.steps[i].depends_on :
          \E j \in StepIdx : wf.steps[j].step_key = dep
    /\ \A i \in StepIdx : \A g \in 1..Len(wf.steps[i].gate_points) :
          wf.steps[i].gate_points[g] \in DOMAIN wf.gates
    /\ detect_cycle(wf)

(***************************************************************************)
(* Inputs: context packages of the context source and the trust table      *)
(***************************************************************************)
Item(mid, ver, mvid, type) ==
    [memory_id |-> mid, version |-> ver, memory_version_id |-> mvid, record_type |-> type]

Package(slot, selected, excluded) ==
    [package_slot |-> slot, selected_items |-> selected, excluded_items |-> excluded]

\* StaticContextPackageSource.by_step
ByStep ==
    [a |-> <<Package(0, <<Item(1, 1, 11, "decision"), Item(2, 1, 21, "preference"),
                         Item(3, 1, 31, "constraint")>>,
                        <<Item(4, 1, 41, "event")>>)>>,
     c |-> <<Package(0, <<Item(1, 1, 11, "decision")>>, <<>>),
             Package(1, <<Item(3, 1, 31, "constraint"), Item(1, 2, 12, "decision")>>, <<>>)>>]

\* memory keys (memory_id, version) whose trust snapshot passes the gate
TrustIncluded == {<<1, 1>>, <<1, 2>>}

(***************************************************************************)
(* multi-agent-center-policy: apply_context_permissions                    *)
(***************************************************************************)
PrunedReference(slot, item, reason) ==
    [package_slot |-> slot, memory_version_id |-> item.memory_version_id,
     memory_id |-> item.memory_id, version |-> item.version,
     record_type |-> item.record_type, reason |-> reason]

\* the type filter never enabled
TypeAllowedAlways(perms, item) == TRUE

TypeAllowed(perms, item) ==
    perms.allowed_record_types = {} \/ item.record_type \in perms.allowed_record_types

\* the selected-items loop of one package; st = [kept, pruned, total]
RECURSIVE PruneSelected(_, _, _, _)
PruneSelected(items, perms, slot, st) ==
    IF items = <<>> THEN st
    ELSE LET item == Head(items) IN
        IF ~TypeAllowed(perms, item)
        THEN PruneSelected(Tail(items), perms, slot,
                [st EXCEPT !.pruned = Append(@, PrunedReference(slot, item, "record_type_not_allowed"))])
        ELSE IF perms.max_context_items # None /\ st.total >= perms.max_context_items[1]
        THEN PruneSelected(Tail(items), perms, slot,
                [st EXCEPT !.pruned = Append(@, PrunedReference(slot, item, "max_context_items_exceeded"))])
        ELSE PruneSelected(Tail(items), perms, slot,
                [st EXCEPT !.kept = Append(@, item), !.total = @ + 1])

\* the excluded-items loop that drops an item of a type not allowed unreported
RECURSIVE PruneExcludedUnreported(_, _, _, _)
PruneExcludedUnreported(items, perms, slot, st) ==
    IF items = <<>> THEN st
    ELSE LET item == Head(items) IN
        IF ~TypeAllowed(perms, item)
        THEN PruneExcludedUnreported(Tail(items), perms, slot, st)
        ELSE PruneExcludedUnreported(Tail(items), perms, slot,
                                     [st EXCEPT !.kept = Append(@, item)])

\* the excluded-items loop of one package; st = [kept, pruned]
RECURSIVE PruneExcluded(_, _, _, _)
PruneExcluded(items, perms, slot, st) ==
    IF items = <<>> THEN st
    ELSE LET item == Head(items) IN
        IF ~TypeAllowed(perms, item)
        THEN PruneExcluded(Tail(items), perms, slot,
                [st EXCEPT !.pruned = Append(@, PrunedReference(slot, item, "excluded_record_type_not_allowed"))])
        ELSE PruneExcluded(Tail(items), perms, slot, [st EXCEPT !.kept = Append(@, item)])

\* the package loop; acc = [packages, pruned_references, total_selected]
RECURSIVE PrunePackages(_, _, _)
PrunePackages(packages, perms, acc) ==
    IF packages = <<>> THEN acc
    ELSE LET package == Head(packages)
             sel == PruneSelected(package.selected_items, perms, package.package_slot,
                        [kept |-> <<>>, pruned |-> acc.pruned_references, total |-> acc.total_selected])
             exc == PruneExcluded(package.excluded_items, perms, package.package_slot,
                        [kept |-> <<>>, pruned |-> sel.pruned])
         IN PrunePackages(Tail(packages), perms,
                [packages |-> Append(acc.packages,
                                 Package(package.package_slot, sel.kept, exc.kept)),
                 pruned_references |-> exc.pruned,
                 total_selected |-> sel.total])

apply_context_permissions(packages, perms) ==
    LET r == PrunePackages(packages, perms,
                 [packages |-> <<>>, pruned_references |-> <<>>, total_selected |-> 0])
    IN [packages |-> r.packages, pruned_references |-> r.pruned_references]

(***************************************************************************)
(* Trust gate sources and the trust filter of the orchestrator             *)
(***************************************************************************)
RECURSIVE Concat(_)
Concat(seqs) == IF seqs = <<>> THEN <<>> ELSE Head(seqs) \o Concat(Tail(seqs))

\* refs: the selected items of the post-policy packages, in order
ContextRefs(packages) ==
    Concat([i \in 1..Len(packages) |-> packages[i].selected_items])

TrustGateAttachment(ref, include, source) ==
    [memory_id |-> ref.memory_id, version |-> ref.version,
     memory_version_id |-> ref.memory_version_id, include |-> include, source |-> source]

\* AllowAllTrustGateSource::evaluate
AllowAllEvaluate(refs) ==
    [i \in 1..Len(refs) |-> TrustGateAttachment(refs[i], TRUE, "trust.none")]

\* OutcomeMemoryTrustGateSource::evaluate: one decision per candidate key
OutcomeEvaluate(refs) ==
    [i \in 1..Len(refs) |->
        TrustGateAttachment(refs[i], <<refs[i].memory_id, refs[i].version>> \in TrustIncluded,
                            "trust.outcome_memory")]

TrustEvaluate(mode, refs) ==
    IF mode = "allow_all" THEN AllowAllEvaluate(refs) ELSE OutcomeEvaluate(refs)

\* trust_map: BTreeMap<(memory_id, version), include>; a later attachment
\* with the same key replaces an earlier one
TrustMapGet(attachments, mid, ver) ==
    LET hits == {i \in 1..Len(attachments) :
                    attachments[i].memory_id = mid /\ attachments[i].version = ver}
    IN IF hits = {} THEN None
       ELSE Some(attachments[CHOOSE i \in hits : \A j \in hits : j <= i].include)

\* the filter left out: every post-policy package is passed on unchanged
apply_trust_filter_unfiltered(packages, attachments) == packages

apply_trust_filter(packages, attachments) ==
    [i \in 1..Len(packages) |->
        LET Retain(item) ==
                LET hit == TrustMapGet(attachments, item.memory_id, item.version)
                IN IF hit = None THEN TRUE ELSE hit[1]
        IN Package(packages[i].package_slot,
                   SelectSeq(packages[i].selected_items, Retain),
                   packages[i].excluded_items)]

\* package_hash = hash_json(context_package)
PackageHash(package) ==
    hash_json(<<package.package_slot>>
              \o [i \in 1..Len(package.selected_items) |-> package.selected_items[i].memory_version_id]
              \o <<0>>
              \o [i \in 1..Len(package.excluded_items) |-> package.excluded_items[i].memory_version_id])

(***************************************************************************)
(* Trace store: schema (SCHEMA_V2) and migrate                             *)
(***************************************************************************)
Table(t) == <<"table", t, "">>
Trigger(t, op) == <<"trigger", t, op>>
Check(t) == <<"check", t, "">>

TraceTableNames ==
    {"schema_migrations", "workflow_snapshots", "runs", "steps", "trace_events",
     "step_context_packages", "step_context_selected", "step_context_excluded",
     "step_gate_decisions", "provider_calls", "proposed_memory_writes"}

\* the tables SCHEMA_V2 gives a BEFORE UPDATE and a BEFORE DELETE trigger
TriggerGuardedTables ==
    {"trace_events", "step_context_selected", "step_context_excluded",
     "step_gate_decisions", "provider_calls", "proposed_memory_writes"}

\* SCHEMA_V2 written without the BEFORE DELETE triggers
TraceTriggersWithoutDelete ==
    {Trigger(t, "UPDATE") : t \in TriggerGuardedTables}
    \cup {Trigger("step_gate_decisions", "INSERT")}

TraceTriggers ==
    {Trigger(t, op) : t \in TriggerGuardedTables, op \in {"UPDATE", "DELETE"}}
    \cup {Trigger("step_gate_decisions", "INSERT")}

\* CREATE TABLE IF NOT EXISTS keeps an existing table as it is, so the CHECK
\* and the foreign keys of a table exist only when SCHEMA_V2 created it;
\* CREATE TRIGGER IF NOT EXISTS installs every trigger
SchemaAfterMigrate(sch) ==
    sch \cup {Table(t) : t \in TraceTableNames}
        \cup {Check(t) : t \in {u \in TraceTableNames : Table(u) \notin sch}}
        \cup TraceTriggers

TRACE_SCHEMA_VERSION == 3

(***************************************************************************)
(* Trace store: row constructors and the constraints of each INSERT        *)
(***************************************************************************)
Tick == Min(clock + 1, MaxClock)

RunRecord(run_id, wf, replay_of) ==
    [run_id |-> run_id, workflow_hash |-> wf.normalized_hash, started_at |-> clock,
     ended_at |-> None, status |-> "running", replay_of_run_id |-> replay_of,
     manifest_hash |-> None, manifest_signature |-> None,
     manifest_signature_status |-> "unsigned"]

\* runs.run_id is the primary key; workflow_hash references workflow_snapshots
InsertRunAccepted(run) ==
    /\ run.run_id \notin DOMAIN runs
    /\ \E s \in workflow_snapshots : s.workflow_hash = run.workflow_hash

insert_run(run) == runs @@ (run.run_id :> run)

\* the UPDATE written without its WHERE clause
update_every_run_finished(run_id, status) ==
    [id \in DOMAIN runs |-> [runs[id] EXCEPT !.status = status, !.ended_at = Some(clock)]]

\* UPDATE runs SET status, ended_at WHERE run_id
update_run_finished(run_id, status) ==
    [id \in DOMAIN runs |->
        IF id = run_id THEN [runs[id] EXCEPT !.status = status, !.ended_at = Some(clock)]
        ELSE runs[id]]

\* UPDATE runs SET manifest_* WHERE run_id
update_run_manifest(run_id, manifest_hash, signature, signature_status) ==
    [id \in DOMAIN runs |->
        IF id = run_id
        THEN [runs[id] EXCEPT !.manifest_hash = Some(manifest_hash),
                              !.manifest_signature = signature,
                              !.manifest_signature_status = signature_status]
        ELSE runs[id]]

\* INSERT ... ON CONFLICT(workflow_hash) DO UPDATE SET every column but created_at
upsert_workflow_snapshot(hash, normalization_version, source_yaml_hash, normalized_json) ==
    IF \E s \in workflow_snapshots : s.workflow_hash = hash
    THEN {IF s.workflow_hash = hash
          THEN [s EXCEPT !.normalization_version = normalization_version,
                         !.source_yaml_hash = source_yaml_hash,
                         !.normalized_json = normalized_json]
          ELSE s : s \in workflow_snapshots}
    ELSE workflow_snapshots \cup
            {[workflow_hash |-> hash, normalization_version |-> normalization_version,
              source_yaml_hash |-> source_yaml_hash, normalized_json |-> normalized_json,
              created_at |-> clock]}

\* steps: step_id primary key, UNIQUE(run_id, step_index), UNIQUE(run_id, step_key),
\* run_id references runs
InsertStepAccepted(step) ==
    /\ step.step_id \notin DOMAIN steps
    /\ step.run_id \in DOMAIN runs
    /\ \A id \in DOMAIN steps :
          steps[id].run_id = step.run_id =>
              /\ steps[id].step_index # step.step_index
              /\ steps[id].step_key # step.step_key

\* insert_step returning Ok without having written the row
insert_step_not_persisted(step) == steps

insert_step(step) == steps @@ (step.step_id :> step)

\* UPDATE steps SET status, ended_at, output_hash, error_json WHERE step_id
update_step_status(step_id, status, output_hash, error_json) ==
    [id \in DOMAIN steps |->
        IF id = step_id
        THEN [steps[id] EXCEPT !.status = status, !.ended_at = Some(clock),
                               !.output_hash = output_hash, !.error_json = error_json]
        ELSE steps[id]]

\* a row's run_id and step_id reference runs and steps (PRAGMA foreign_keys = ON)
ForeignKeysHold(run_id, step_id) ==
    /\ run_id \in DOMAIN runs
    /\ step_id = None \/ step_id[1] \in DOMAIN steps

\* trace_events: event_seq AUTOINCREMENT, event_id UNIQUE, foreign keys
AppendEventAccepted(event) ==
    /\ \A i \in 1..Len(trace_events) : trace_events[i].event_id # event.event_id
    /\ ForeignKeysHold(event.run_id, event.step_id)

append_event(event) ==
    Append(trace_events, [event EXCEPT !.event_seq = Len(trace_events) + 1])

\* append_gate_decision: the application check, then the INSERT with the
\* table CHECK (when present) and the BEFORE INSERT identity trigger
\* the identity rule as it was before memory_version_id was required
LacksIdentityWithoutVersionId(d) ==
    /\ d.gate_kind = "trust"
    /\ d.subject_type = "memory_ref"
    /\ (d.memory_id = None \/ d.version = None)

LacksIdentity(d) ==
    /\ d.gate_kind = "trust"
    /\ d.subject_type = "memory_ref"
    /\ (d.memory_id = None \/ d.version = None \/ d.memory_version_id = None)

\* the INSERT against a schema whose identity rule is the table CHECK alone
GateDecisionInsertCheckOnly(sch, d) ==
    /\ ~(Check("step_gate_decisions") \in sch /\ LacksIdentity(d))
    /\ Check("step_gate_decisions") \in sch => ForeignKeysHold(d.run_id, Some(d.step_id))

GateDecisionInsertAccepted(sch, d) ==
    /\ ~(Trigger("step_gate_decisions", "INSERT") \in sch /\ LacksIdentity(d))
    /\ ~(Check("step_gate_decisions") \in sch /\ LacksIdentity(d))
    /\ Check("step_gate_decisions") \in sch => ForeignKeysHold(d.run_id, Some(d.step_id))

AppendGateDecisionAccepted(sch, d) ==
    /\ ~LacksIdentity(d)
    /\ GateDecisionInsertAccepted(sch, d)

GateDecisionRecord(run_id, step_id, kind, name, subject, mid, ver, mvid, decision, by) ==
    [run_id |-> run_id, step_id |-> step_id, gate_kind |-> kind, gate_name |-> name,
     subject_type |-> subject, memory_id |-> mid, version |-> ver,
     memory_version_id |-> mvid, decision |-> decision, decided_by |-> by,
     decided_at |-> clock]

(***************************************************************************)
(* Orchestrator: local state of one execute_workflow call                  *)
(***************************************************************************)
StepIdOf(r, idx) == r * (NumSteps + 1) + idx

NewOrch(wf, run_id, trust_mode, replay_of) ==
    [pc |-> "idle",
     wf |-> wf,                          \* workflow: &NormalizedWorkflowEnvelope
     run_id |-> run_id,                  \* config.run_id
     trust_mode |-> trust_mode,          \* which TrustGateSource was passed to new
     replay_of_run_id |-> replay_of,     \* config.replay_of_run_id
     statuses |-> [i \in StepIdx |-> "pending"],
     inserted_steps |-> {},
     chain |-> None,                     \* EventChain.prev_event_hash
     ready |-> <<>>,
     blocked |-> <<>>,
     cur |-> 0,                          \* idx of the step transaction under way
     packages |-> <<>>,                  \* step_request.injected_context_packages
     attachments |-> <<>>,               \* step_request.trust_gate_attachments
     refs |-> 0,                         \* refs.len()
     pruned_references |-> <<>>,
     input_hash |-> 0,
     gate_i |-> 0,                       \* position in step.gate_points
     decision |-> None,                  \* the human decision being recorded
     rejected_by_human_gate |-> FALSE,
     invocation |-> None,                \* status of the provider call, when Ok
     result |-> None,                    \* StepResult: status and error code
     run_status |-> None,                \* the terminal status computed for the run
     error |-> "",                       \* the Err execute_workflow returned
     context_failed |-> {},              \* steps whose packages_for_step returned Err
     adapter_failed |-> {}]              \* steps whose route_provider_call returned Err

Abort(o, msg) == [o EXCEPT !.pc = "aborted", !.error = msg]

Unsettled(statuses) == {i \in StepIdx : statuses[i] \in {"pending", "running"}}

KeyIndex(wf, key) == CHOOSE i \in StepIdx : wf.steps[i].step_key = key
KnownKey(wf, key) == \E i \in StepIdx : wf.steps[i].step_key = key

RECURSIVE SortedSeq(_)
SortedSeq(S) ==
    IF S = {} THEN <<>>
    ELSE LET m == CHOOSE x \in S : \A y \in S : x <= y
         IN <<m>> \o SortedSeq(S \ {m})

\* the classification loop of one scheduler pass
HasNonSuccessDependency(wf, statuses, idx) ==
    \E dep \in wf.steps[idx].depends_on :
        statuses[KeyIndex(wf, dep)] \in {"failed", "rejected", "skipped"}

AllDone(wf, statuses, idx) ==
    \A dep \in wf.steps[idx].depends_on :
        statuses[KeyIndex(wf, dep)] \notin {"pending", "running"}

BlockedSet(wf, statuses) ==
    {idx \in StepIdx : statuses[idx] = "pending" /\ HasNonSuccessDependency(wf, statuses, idx)}

\* the classification loop without its all_done test
ReadySetEager(wf, statuses) ==
    {idx \in StepIdx : statuses[idx] = "pending" /\ ~HasNonSuccessDependency(wf, statuses, idx)}

\* the classification loop without its test that the step is still pending
ReadySetAnyStatus(wf, statuses) ==
    {idx \in StepIdx : ~HasNonSuccessDependency(wf, statuses, idx) /\ AllDone(wf, statuses, idx)}

ReadySet(wf, statuses) ==
    {idx \in StepIdx : /\ statuses[idx] = "pending"
                       /\ ~HasNonSuccessDependency(wf, statuses, idx)
                       /\ AllDone(wf, statuses, idx)}

UnknownDependency(wf, statuses) ==
    \E idx \in StepIdx :
        /\ statuses[idx] = "pending"
        /\ \E dep \in wf.steps[idx].depends_on : ~KnownKey(wf, dep)

\* after the blocked loop: no ready step either ends the loop or is an error,
\* otherwise the first ready step begins its transaction
AfterBlocked(o) ==
    IF o.ready = <<>>
    THEN IF Unsettled(o.statuses) = {}
         THEN [o EXCEPT !.pc = "finish_run"]
         ELSE Abort(o, "no ready steps found while pending steps remain")
    ELSE [o EXCEPT !.pc = "begin", !.cur = Head(o.ready)]

\* emit_event: the hash material and the event row
EventMaterial(event_id, run_id, step_id, event_type, at, payload_hash, prev) ==
    <<event_id, run_id, OptNum(step_id), EventTypeCode(event_type), at, at,
      payload_hash, OptNum(prev)>>

NewEvent(o, step_id, event_type, actor_id, payload) ==
    LET event_id == Len(trace_events) + 1      \* Ulid::new(): fresh
        payload_hash == hash_json(payload)
    IN [event_seq |-> 0, event_id |-> event_id, run_id |-> o.run_id, step_id |-> step_id,
        event_type |-> event_type, occurred_at |-> clock, recorded_at |-> clock,
        actor_id |-> actor_id, payload_json |-> payload, payload_hash |-> payload_hash,
        prev_event_hash |-> o.chain,
        event_hash |-> hash_json(EventMaterial(event_id, o.run_id, step_id, event_type,
                                               clock, payload_hash, o.chain))]

\* emit_event without the assignment to chain.prev_event_hash
EmitThenStaleChain(r, step_id, event_type, actor_id, payload, next) ==
    LET event == NewEvent(orch[r], step_id, event_type, actor_id, payload) IN
    /\ clock' = Tick
    /\ IF AppendEventAccepted(event)
       THEN /\ trace_events' = append_event(event)
            /\ orch' = [orch EXCEPT ![r] = [next EXCEPT !.chain = orch[r].chain]]
       ELSE /\ trace_events' = trace_events
            /\ orch' = [orch EXCEPT ![r] = Abort(orch[r], "failed to append trace event")]

\* emit_event followed by the local assignments up to the next store call:
\* next is the local state after them, chain excepted
EmitThen(r, step_id, event_type, actor_id, payload, next) ==
    LET event == NewEvent(orch[r], step_id, event_type, actor_id, payload) IN
    /\ clock' = Tick
    /\ IF AppendEventAccepted(event)
       THEN /\ trace_events' = append_event(event)
            /\ orch' = [orch EXCEPT ![r] = [next EXCEPT !.chain = Some(event.event_hash)]]
       ELSE /\ trace_events' = trace_events
            /\ orch' = [orch EXCEPT ![r] = Abort(orch[r], "failed to append trace event")]

StatusCode(st) ==
    CASE st = "pending" -> 0 [] st = "running" -> 1 [] st = "succeeded" -> 2
      [] st = "failed" -> 3 [] st = "rejected" -> 4 [] st = "skipped" -> 5

(***************************************************************************)
(* Orchestrator::execute_workflow, one action per store call               *)
(***************************************************************************)
ctxTables == <<step_context_packages, step_context_selected, step_context_excluded>>
elsewhere == <<outcomeVars, last_sql, policy_call, normalize_call>>

OnlyEvents ==
    UNCHANGED <<schema, migrations, workflow_snapshots, runs, steps, ctxTables,
                step_gate_decisions, provider_calls, proposed_memory_writes, elsewhere>>
OnlyRuns ==
    UNCHANGED <<schema, migrations, workflow_snapshots, steps, trace_events, ctxTables,
                step_gate_decisions, provider_calls, proposed_memory_writes, elsewhere>>
OnlySteps ==
    UNCHANGED <<schema, migrations, workflow_snapshots, runs, trace_events, ctxTables,
                step_gate_decisions, provider_calls, proposed_memory_writes, elsewhere>>
OnlyGateDecisions ==
    UNCHANGED <<schema, migrations, workflow_snapshots, runs, steps, trace_events, ctxTables,
                provider_calls, proposed_memory_writes, elsewhere>>
OnlyLocal ==
    UNCHANGED <<storeVars, elsewhere, clock>>

\* self.trace_store.migrate()
Migrate(r) ==
    /\ orch[r].pc = "idle"
    /\ schema' = SchemaAfterMigrate(schema)
    /\ migrations' = migrations \cup {TRACE_SCHEMA_VERSION}
    /\ orch' = [orch EXCEPT ![r].pc = "snapshot"]
    /\ UNCHANGED <<traceTables, elsewhere, clock>>

UpsertWorkflowSnapshot(r) ==
    LET wf == orch[r].wf IN
    /\ orch[r].pc = "snapshot"
    /\ workflow_snapshots' =
          upsert_workflow_snapshot(wf.normalized_hash, 1, wf.source_yaml_hash, wf.normalized_hash)
    /\ orch' = [orch EXCEPT ![r].pc = "insert_run"]
    /\ clock' = Tick
    /\ UNCHANGED <<schema, migrations, runs, steps, trace_events, ctxTables,
                   step_gate_decisions, provider_calls, proposed_memory_writes, elsewhere>>

InsertRun(r) ==
    LET o == orch[r]
        run == RunRecord(o.run_id, o.wf, o.replay_of_run_id)
    IN
    /\ o.pc = "insert_run"
    /\ clock' = Tick
    /\ IF InsertRunAccepted(run)
       THEN /\ runs' = insert_run(run)
            /\ orch' = [orch EXCEPT ![r].pc = "manifest"]
       ELSE /\ runs' = runs
            /\ orch' = [orch EXCEPT ![r] = Abort(o, "failed to insert run")]
    /\ OnlyRuns

UpdateRunManifest(r) ==
    LET o == orch[r] IN
    /\ o.pc = "manifest"
    /\ runs' = update_run_manifest(o.run_id, hash_json(<<o.run_id, o.wf.normalized_hash>>),
                                   None, "unsigned")
    /\ orch' = [orch EXCEPT ![r] = [o EXCEPT !.pc = "ev_normalized", !.chain = None]]
    /\ UNCHANGED clock
    /\ OnlyRuns

EmitWorkflowNormalized(r) ==
    /\ orch[r].pc = "ev_normalized"
    /\ EmitThen(r, None, "workflow_normalized", "orchestrator",
                <<orch[r].wf.normalized_hash>>, [orch[r] EXCEPT !.pc = "ev_run_started"])
    /\ OnlyEvents

EmitRunStarted(r) ==
    /\ orch[r].pc = "ev_run_started"
    /\ EmitThen(r, None, "run_started", "orchestrator", <<>>,
                [orch[r] EXCEPT !.pc = "schedule"])
    /\ OnlyEvents

\* the head of the scheduler loop: break, or classify the pending steps
Schedule(r) ==
    LET o == orch[r] IN
    /\ o.pc = "schedule"
    /\ orch' = [orch EXCEPT ![r] =
          IF Unsettled(o.statuses) = {}
          THEN [o EXCEPT !.pc = "finish_run"]
          ELSE IF UnknownDependency(o.wf, o.statuses)
          THEN Abort(o, "unknown dependency")
          ELSE LET classified ==
                       [o EXCEPT !.ready = SortedSeq(ReadySet(o.wf, o.statuses)),
                                 !.blocked = SortedSeq(BlockedSet(o.wf, o.statuses))]
               IN IF classified.blocked # <<>>
                  THEN [classified EXCEPT !.pc = "skip_insert"]
                  ELSE AfterBlocked(classified)]
    /\ OnlyLocal

SkippedStepRecord(o, r, idx) ==
    [step_id |-> StepIdOf(r, idx), run_id |-> o.run_id, step_index |-> idx,
     step_key |-> o.wf.steps[idx].step_key, agent_name |-> o.wf.steps[idx].agent_name,
     status |-> "skipped", started_at |-> Some(clock), ended_at |-> Some(clock),
     input_hash |-> 0, output_hash |-> Some(0),
     error_json |-> Some("dependency_not_satisfied")]

\* for idx in blocked: statuses[idx] = Skipped; insert_step
SkipInsert(r) ==
    LET o == orch[r]
        idx == Head(o.blocked)
        record == SkippedStepRecord(o, r, idx)
        marked == [o EXCEPT !.statuses[idx] = "skipped"]
    IN
    /\ o.pc = "skip_insert"
    /\ clock' = Tick
    /\ IF idx \in o.inserted_steps
       THEN /\ steps' = steps
            /\ orch' = [orch EXCEPT ![r] = [marked EXCEPT !.pc = "skip_event"]]
       ELSE IF InsertStepAccepted(record)
       THEN /\ steps' = insert_step(record)
            /\ orch' = [orch EXCEPT ![r] =
                  [marked EXCEPT !.pc = "skip_event", !.inserted_steps = @ \cup {idx}]]
       ELSE /\ steps' = steps
            /\ orch' = [orch EXCEPT ![r] = Abort(marked, "failed to insert step")]
    /\ OnlySteps

\* ... emit StepFinished for the skipped step, then the next blocked step
SkipEmit(r) ==
    LET o == orch[r]
        idx == Head(o.blocked)
        rest == [o EXCEPT !.blocked = Tail(o.blocked)]
    IN
    /\ o.pc = "skip_event"
    /\ EmitThen(r, Some(StepIdOf(r, idx)), "step_finished", "scheduler",
                <<idx, StatusCode("skipped")>>,
                IF rest.blocked # <<>> THEN [rest EXCEPT !.pc = "skip_insert"]
                ELSE AfterBlocked(rest))
    /\ OnlyEvents

(***************************************************************************)
(* The step transaction                                                    *)
(***************************************************************************)
\* ContextPackageSource::packages_for_step when it returns Ok
PackagesForStep(step) ==
    IF step.step_key \in DOMAIN ByStep THEN ByStep[step.step_key] ELSE <<>>

\* compute_step_request_hash
StepRequestHash(run_id, step_id, packages, attachments) ==
    hash_json(<<run_id, step_id>>
              \o [i \in 1..Len(packages) |-> PackageHash(packages[i])]
              \o [i \in 1..Len(attachments) |-> IF attachments[i].include THEN 1 ELSE 0])

RunningStepRecord(o, r, idx, input_hash) ==
    [step_id |-> StepIdOf(r, idx), run_id |-> o.run_id, step_index |-> idx,
     step_key |-> o.wf.steps[idx].step_key, agent_name |-> o.wf.steps[idx].agent_name,
     status |-> "running", started_at |-> Some(clock), ended_at |-> None,
     input_hash |-> input_hash, output_hash |-> None, error_json |-> None]

\* the Err of packages_for_step turned into a failed step result
ContextFailureAsStepError(o, idx) ==
    [o EXCEPT !.context_failed = @ \cup {idx},
              !.cur = idx,
              !.result = Some([status |-> "failed", error |-> Some("context_resolution_failed")]),
              !.pc = "update_status"]

\* packages_for_step(...).with_context(...)? returned Err: execute_workflow
\* returns the error
ContextFailure(o, idx) ==
    Abort([o EXCEPT !.context_failed = @ \cup {idx}], "failed to obtain context packages")

\* statuses[idx] = Running; resolve the agent; fetch, prune and trust-filter the
\* context packages; build the request; insert_step
BeginStep(r) ==
    LET o == orch[r]
        idx == o.cur
        step == o.wf.steps[idx]
        running == [o EXCEPT !.statuses[idx] = "running"]
    IN
    /\ o.pc = "begin"
    /\ clock' = Tick
    /\ IF step.agent_name \notin DOMAIN o.wf.agents
       THEN /\ orch' = [orch EXCEPT ![r] = Abort(running, "unknown agent")]
            /\ steps' = steps
       ELSE \E context_ok \in BOOLEAN :
            IF ~context_ok
            THEN /\ orch' = [orch EXCEPT ![r] = ContextFailure(running, idx)]
                 /\ steps' = steps
            ELSE LET perms == o.wf.agents[step.agent_name].permissions
                     pruned == apply_context_permissions(PackagesForStep(step), perms)
                     refs == ContextRefs(pruned.packages)
                     attachments == TrustEvaluate(o.trust_mode, refs)
                     gated == apply_trust_filter(pruned.packages, attachments)
                     input_hash == StepRequestHash(o.run_id, StepIdOf(r, idx), gated, attachments)
                     record == RunningStepRecord(o, r, idx, input_hash)
                     prepared == [running EXCEPT !.packages = gated,
                                                 !.attachments = attachments,
                                                 !.refs = Len(refs),
                                                 !.pruned_references = pruned.pruned_references,
                                                 !.input_hash = input_hash,
                                                 !.pc = IF attachments = <<>> THEN "ev_ready"
                                                        ELSE "trust_rows"]
                 IN IF idx \in o.inserted_steps
                    THEN /\ steps' = steps
                         /\ orch' = [orch EXCEPT ![r] = prepared]
                    ELSE IF InsertStepAccepted(record)
                    THEN /\ steps' = insert_step(record)
                         /\ orch' = [orch EXCEPT ![r] =
                               [prepared EXCEPT !.inserted_steps = @ \cup {idx}]]
                    ELSE /\ steps' = steps
                         /\ orch' = [orch EXCEPT ![r] = Abort(running, "failed to insert step")]
    /\ OnlySteps

TrustDecisionRecord(o, step_id, a) ==
    GateDecisionRecord(o.run_id, step_id, "trust", "trust_gate", "memory_ref",
                       Some(a.memory_id), Some(a.version), Some(a.memory_version_id),
                       IF a.include THEN "approved" ELSE "rejected", a.source)

\* the attachment loop left out: no trust row is written
AppendTrustDecisionsSkipped(rows, o, step_id, attachments) == [ok |-> TRUE, rows |-> rows]

\* for attachment in trust_gate_attachments: append_gate_decision(...)?
RECURSIVE AppendTrustDecisions(_, _, _, _)
AppendTrustDecisions(rows, o, step_id, attachments) ==
    IF attachments = <<>> THEN [ok |-> TRUE, rows |-> rows]
    ELSE LET d == TrustDecisionRecord(o, step_id, Head(attachments)) IN
         IF AppendGateDecisionAccepted(schema, d)
         THEN AppendTrustDecisions(Append(rows, d), o, step_id, Tail(attachments))
         ELSE [ok |-> FALSE, rows |-> rows]

PersistTrustDecisions(r) ==
    LET o == orch[r]
        res == AppendTrustDecisions(step_gate_decisions, o, StepIdOf(r, o.cur), o.attachments)
    IN
    /\ o.pc = "trust_rows"
    /\ clock' = Tick
    /\ step_gate_decisions' = res.rows
    /\ orch' = [orch EXCEPT ![r] =
          IF res.ok THEN [o EXCEPT !.pc = "ev_ready"]
          ELSE Abort(o, "failed to insert step_gate_decisions row")]
    /\ OnlyGateDecisions

EmitStepReady(r) ==
    LET o == orch[r] IN
    /\ o.pc = "ev_ready"
    /\ EmitThen(r, Some(StepIdOf(r, o.cur)), "step_ready", "scheduler", <<o.cur>>,
                [o EXCEPT !.pc = IF o.packages = <<>> THEN "ev_input" ELSE "packages"])
    /\ OnlyEvents

PackageRow(o, step_id, package) ==
    [run_id |-> o.run_id, step_id |-> step_id, package_slot |-> package.package_slot,
     generated_at |-> clock, package_hash |-> PackageHash(package)]

ItemRow(step_id, slot, rank, item) ==
    [step_id |-> step_id, package_slot |-> slot, rank |-> rank,
     memory_version_id |-> item.memory_version_id, memory_id |-> item.memory_id,
     version |-> item.version, record_type |-> item.record_type]

\* step_context_packages: UNIQUE(step_id, package_slot), foreign keys
ContextPackageAccepted(rows, row) ==
    /\ ForeignKeysHold(row.run_id, Some(row.step_id))
    /\ \A i \in 1..Len(rows) :
          ~(rows[i].step_id = row.step_id /\ rows[i].package_slot = row.package_slot)

\* for package in injected_context_packages: append_context_package(...)?
\* acc = [ok, packages, selected, excluded]
RECURSIVE AppendContextPackages(_, _, _, _)
AppendContextPackages(acc, o, step_id, packages) ==
    IF packages = <<>> THEN acc
    ELSE LET package == Head(packages)
             row == PackageRow(o, step_id, package)
         IN IF ~ContextPackageAccepted(acc.packages, row)
            THEN [acc EXCEPT !.ok = FALSE]
            ELSE AppendContextPackages(
                    [ok |-> TRUE,
                     packages |-> Append(acc.packages, row),
                     selected |-> acc.selected \o
                         [i \in 1..Len(package.selected_items) |->
                             ItemRow(step_id, package.package_slot, i, package.selected_items[i])],
                     excluded |-> acc.excluded \o
                         [i \in 1..Len(package.excluded_items) |->
                             ItemRow(step_id, package.package_slot, i, package.excluded_items[i])]],
                    o, step_id, Tail(packages))

PersistContextPackages(r) ==
    LET o == orch[r]
        res == AppendContextPackages(
                   [ok |-> TRUE, packages |-> step_context_packages,
                    selected |-> step_context_selected, excluded |-> step_context_excluded],
                   o, StepIdOf(r, o.cur), o.packages)
    IN
    /\ o.pc = "packages"
    /\ clock' = Tick
    /\ step_context_packages' = res.packages
    /\ step_context_selected' = res.selected
    /\ step_context_excluded' = res.excluded
    /\ orch' = [orch EXCEPT ![r] =
          IF res.ok THEN [o EXCEPT !.pc = "ev_input"]
          ELSE Abort(o, "failed to insert step_context_packages row")]
    /\ UNCHANGED <<schema, migrations, workflow_snapshots, runs, steps, trace_events,
                   step_gate_decisions, provider_calls, proposed_memory_writes, elsewhere>>

\* the prune events begun at the Warning, with no StepPermissionPruned
AfterTrustSummaryWarningFirst(o) ==
    IF o.pruned_references # <<>> THEN [o EXCEPT !.pc = "ev_prune_warning"]
    ELSE [o EXCEPT !.pc = "ev_started"]

\* what follows the trust summary: the prune events, or StepStarted
AfterTrustSummary(o) ==
    IF o.pruned_references # <<>> THEN [o EXCEPT !.pc = "ev_pruned"]
    ELSE [o EXCEPT !.pc = "ev_started"]

EmitStepInputPrepared(r) ==
    LET o == orch[r] IN
    /\ o.pc = "ev_input"
    /\ EmitThen(r, Some(StepIdOf(r, o.cur)), "step_input_prepared", "orchestrator",
                <<Len(o.packages), o.refs, Len(o.attachments)>>,
                IF Len(o.attachments) > 0 THEN [o EXCEPT !.pc = "ev_trust"]
                ELSE AfterTrustSummary(o))
    /\ OnlyEvents

TrustIncludedCount(attachments) ==
    Cardinality({i \in 1..Len(attachments) : attachments[i].include})

EmitTrustGateEvaluated(r) ==
    LET o == orch[r]
        included == TrustIncludedCount(o.attachments)
    IN
    /\ o.pc = "ev_trust"
    /\ EmitThen(r, Some(StepIdOf(r, o.cur)), "gate_evaluated", "trust_gate",
                <<included, Len(o.attachments) - included>>, AfterTrustSummary(o))
    /\ OnlyEvents

EmitStepPermissionPruned(r) ==
    LET o == orch[r] IN
    /\ o.pc = "ev_pruned"
    /\ EmitThen(r, Some(StepIdOf(r, o.cur)), "step_permission_pruned", "policy",
                <<Len(o.pruned_references)>>, [o EXCEPT !.pc = "ev_prune_warning"])
    /\ OnlyEvents

EmitPruneWarning(r) ==
    LET o == orch[r]
        perms == o.wf.agents[o.wf.steps[o.cur].agent_name].permissions
    IN
    /\ o.pc = "ev_prune_warning"
    /\ EmitThen(r, Some(StepIdOf(r, o.cur)), "warning", "policy",
                <<1, Len(o.pruned_references)>>,
                IF perms.fail_on_permission_prune THEN [o EXCEPT !.pc = "ev_prune_ignored"]
                ELSE [o EXCEPT !.pc = "policy_row"])
    /\ OnlyEvents

EmitPruneIgnoredWarning(r) ==
    LET o == orch[r] IN
    /\ o.pc = "ev_prune_ignored"
    /\ EmitThen(r, Some(StepIdOf(r, o.cur)), "warning", "policy", <<2>>,
                [o EXCEPT !.pc = "policy_row"])
    /\ OnlyEvents

\* the aggregate policy row, written after the prune events
PersistPolicyDecision(r) ==
    LET o == orch[r]
        d == GateDecisionRecord(o.run_id, StepIdOf(r, o.cur), "policy", "context_permission",
                                "context_items", None, None, None, "pruned", "policy.engine")
    IN
    /\ o.pc = "policy_row"
    /\ clock' = Tick
    /\ IF AppendGateDecisionAccepted(schema, d)
       THEN /\ step_gate_decisions' = Append(step_gate_decisions, d)
            /\ orch' = [orch EXCEPT ![r].pc = "ev_started"]
       ELSE /\ step_gate_decisions' = step_gate_decisions
            /\ orch' = [orch EXCEPT ![r] = Abort(o, "failed to insert step_gate_decisions row")]
    /\ OnlyGateDecisions

(***************************************************************************)
(* Human gates, provider call, step result                                 *)
(***************************************************************************)
RejectedResult == [status |-> "rejected", error |-> None]
FailedResult == [status |-> "failed", error |-> Some("provider_invocation_failed")]
SucceededResult == [status |-> "succeeded", error |-> None]

\* the gate loop with the provider called whatever the human gates decided
RECURSIVE AdvanceGatesIgnoringRejection(_)
AdvanceGatesIgnoringRejection(o) ==
    LET gate_points == o.wf.steps[o.cur].gate_points IN
    IF o.gate_i > Len(gate_points)
    THEN [o EXCEPT !.pc = "provider"]
    ELSE LET gate_name == gate_points[o.gate_i] IN
         IF gate_name \notin DOMAIN o.wf.gates
         THEN Abort(o, "missing gate")
         ELSE IF o.wf.gates[gate_name].gate_kind # "human"
         THEN AdvanceGatesIgnoringRejection([o EXCEPT !.gate_i = @ + 1])
         ELSE [o EXCEPT !.pc = "human_gate"]

\* the gate loop up to its next store call: gates that are not human are
\* passed over, a gate point without a definition is an error, and after the
\* last gate the step is rejected or goes to the provider
RECURSIVE AdvanceGates(_)
AdvanceGates(o) ==
    LET gate_points == o.wf.steps[o.cur].gate_points IN
    IF o.gate_i > Len(gate_points)
    THEN IF o.rejected_by_human_gate
         THEN [o EXCEPT !.result = Some(RejectedResult), !.pc = "update_status"]
         ELSE [o EXCEPT !.pc = "provider"]
    ELSE LET gate_name == gate_points[o.gate_i] IN
         IF gate_name \notin DOMAIN o.wf.gates
         THEN Abort(o, "missing gate")
         ELSE IF o.wf.gates[gate_name].gate_kind # "human"
         THEN AdvanceGates([o EXCEPT !.gate_i = @ + 1])
         ELSE [o EXCEPT !.pc = "human_gate"]

EmitStepStarted(r) ==
    LET o == orch[r] IN
    /\ o.pc = "ev_started"
    /\ EmitThen(r, Some(StepIdOf(r, o.cur)), "step_started", "orchestrator", <<o.cur>>,
                AdvanceGates([o EXCEPT !.gate_i = 1, !.rejected_by_human_gate = FALSE]))
    /\ OnlyEvents

\* self.human_gate.decide(...) and the append_gate_decision of its answer
HumanGateDecide(r) ==
    LET o == orch[r]
        gate_name == o.wf.steps[o.cur].gate_points[o.gate_i]
    IN
    /\ o.pc = "human_gate"
    /\ clock' = Tick
    /\ \E approved \in BOOLEAN :
          LET d == GateDecisionRecord(o.run_id, StepIdOf(r, o.cur), "human", gate_name, "step",
                                      None, None, None,
                                      IF approved THEN "approved" ELSE "rejected",
                                      "human_gate")
          IN IF AppendGateDecisionAccepted(schema, d)
             THEN /\ step_gate_decisions' = Append(step_gate_decisions, d)
                  /\ orch' = [orch EXCEPT ![r] =
                        [o EXCEPT !.decision = Some(approved), !.pc = "ev_gate"]]
             ELSE /\ step_gate_decisions' = step_gate_decisions
                  /\ orch' = [orch EXCEPT ![r] =
                        Abort(o, "failed to insert step_gate_decisions row")]
    /\ OnlyGateDecisions

EmitHumanGateEvaluated(r) ==
    LET o == orch[r]
        gate == o.wf.gates[o.wf.steps[o.cur].gate_points[o.gate_i]]
        approved == o.decision[1]
    IN
    /\ o.pc = "ev_gate"
    /\ EmitThen(r, Some(StepIdOf(r, o.cur)), "gate_evaluated", "human_gate",
                <<o.gate_i, IF approved THEN 1 ELSE 0, IF gate.required THEN 1 ELSE 0>>,
                AdvanceGates([o EXCEPT
                    !.rejected_by_human_gate = @ \/ (gate.required /\ ~approved),
                    !.decision = None,
                    !.gate_i = @ + 1]))
    /\ OnlyEvents

\* what route_provider_call can return for a provider_name: the status of the
\* provider call of an Ok(invocation), or "error" for an Err
ProviderOutcomes(provider_name) ==
    CASE provider_name = "mock" -> {"succeeded"}
      [] provider_name = "http_json" -> {"succeeded", "failed", "error"}
      [] OTHER -> {"error"}

ProviderCallRecord(o, step_id, provider_name, status) ==
    [provider_call_id |-> Len(provider_calls) + 1, run_id |-> o.run_id, step_id |-> step_id,
     provider_name |-> provider_name, request_hash |-> o.input_hash,
     started_at |-> clock, status |-> status]

\* provider_calls: provider_call_id primary key, foreign keys
ProviderCallAccepted(call) ==
    /\ \A i \in 1..Len(provider_calls) : provider_calls[i].provider_call_id # call.provider_call_id
    /\ ForeignKeysHold(call.run_id, Some(call.step_id))

\* route_provider_call returned Ok: persist_provider_call's append_provider_call
ProviderCallOk(r) ==
    LET o == orch[r]
        provider_name == o.wf.agents[o.wf.steps[o.cur].agent_name].provider_name
    IN
    /\ o.pc = "provider"
    /\ clock' = Tick
    /\ \E status \in ProviderOutcomes(provider_name) \ {"error"} :
          LET call == ProviderCallRecord(o, StepIdOf(r, o.cur), provider_name, status) IN
          IF ProviderCallAccepted(call)
          THEN /\ provider_calls' = Append(provider_calls, call)
               /\ orch' = [orch EXCEPT ![r] =
                     [o EXCEPT !.invocation = Some(status), !.pc = "ev_provider"]]
          ELSE /\ provider_calls' = provider_calls
               /\ orch' = [orch EXCEPT ![r] = Abort(o, "failed to insert provider_call row")]
    /\ UNCHANGED <<schema, migrations, workflow_snapshots, runs, steps, trace_events, ctxTables,
                   step_gate_decisions, proposed_memory_writes, elsewhere>>

\* ... and its ProviderCalled event; build_step_result_from_provider
EmitProviderCalled(r) ==
    LET o == orch[r] IN
    /\ o.pc = "ev_provider"
    /\ EmitThen(r, Some(StepIdOf(r, o.cur)), "provider_called", "provider",
                <<Len(provider_calls)>>,
                [o EXCEPT !.result = Some(SucceededResult), !.pc = "update_status"])
    /\ OnlyEvents

\* route_provider_call returned Err: the Error event and the failed result
ProviderCallErr(r) ==
    LET o == orch[r]
        provider_name == o.wf.agents[o.wf.steps[o.cur].agent_name].provider_name
    IN
    /\ o.pc = "provider"
    /\ "error" \in ProviderOutcomes(provider_name)
    /\ EmitThen(r, Some(StepIdOf(r, o.cur)), "error", "router", <<o.cur>>,
                [o EXCEPT !.result = Some(FailedResult),
                          !.adapter_failed = @ \cup {o.cur},
                          !.pc = "update_status"])
    /\ OnlyEvents

\* compute_step_result_hash
StepResultHash(run_id, step_id, result) ==
    hash_json(<<run_id, step_id, StatusCode(result.status),
                IF result.error = None THEN 0 ELSE 1>>)

\* both adapters return no proposed writes, so the proposed-write loops do
\* nothing; update_step_status
UpdateStepStatus(r) ==
    LET o == orch[r]
        step_id == StepIdOf(r, o.cur)
        result == o.result[1]
    IN
    /\ o.pc = "update_status"
    /\ clock' = Tick
    /\ steps' = update_step_status(step_id, result.status,
                                   Some(StepResultHash(o.run_id, step_id, result)), result.error)
    /\ orch' = [orch EXCEPT ![r].pc = "ev_finished"]
    /\ OnlySteps

\* StepFinished; statuses[idx] = result.status; the next ready step of this
\* pass, or the next pass of the scheduler loop
EmitStepFinished(r) ==
    LET o == orch[r]
        result == o.result[1]
        closed == [o EXCEPT !.statuses[o.cur] = result.status,
                            !.ready = Tail(o.ready),
                            !.packages = <<>>, !.attachments = <<>>, !.refs = 0,
                            !.pruned_references = <<>>, !.input_hash = 0, !.gate_i = 0,
                            !.rejected_by_human_gate = FALSE, !.invocation = None,
                            !.result = None, !.cur = 0]
    IN
    /\ o.pc = "ev_finished"
    /\ EmitThen(r, Some(StepIdOf(r, o.cur)), "step_finished", "orchestrator",
                <<o.cur, StatusCode(result.status)>>,
                IF closed.ready # <<>>
                THEN [closed EXCEPT !.pc = "begin", !.cur = Head(closed.ready)]
                ELSE [closed EXCEPT !.pc = "schedule"])
    /\ OnlyEvents

(***************************************************************************)
(* Terminal run status                                                     *)
(***************************************************************************)
\* the status rule testing failed before rejected
TerminalRunStatusFailedFirst(statuses) ==
    IF \E i \in StepIdx : statuses[i] = "failed" THEN "failed"
    ELSE IF \E i \in StepIdx : statuses[i] = "rejected" THEN "rejected"
    ELSE "succeeded"

TerminalRunStatusOf(statuses) ==
    IF \E i \in StepIdx : statuses[i] = "rejected" THEN "rejected"
    ELSE IF \E i \in StepIdx : statuses[i] = "failed" THEN "failed"
    ELSE "succeeded"

FinishRun(r) ==
    LET o == orch[r]
        run_status == TerminalRunStatusOf(o.statuses)
    IN
    /\ o.pc = "finish_run"
    /\ clock' = Tick
    /\ runs' = update_run_finished(o.run_id, run_status)
    /\ orch' = [orch EXCEPT ![r] = [o EXCEPT !.run_status = Some(run_status),
                                             !.pc = "ev_run_finished"]]
    /\ OnlyRuns

EmitRunFinished(r) ==
    LET o == orch[r] IN
    /\ o.pc = "ev_run_finished"
    /\ EmitThen(r, None, "run_finished", "orchestrator",
                <<StatusCode(o.run_status[1]),
                  Cardinality({i \in StepIdx : o.statuses[i] = "succeeded"}),
                  Cardinality({i \in StepIdx : o.statuses[i] \in {"failed", "rejected"}})>>,
                [o EXCEPT !.pc = "done"])
    /\ OnlyEvents

(***************************************************************************)
(* Specification of one execute_workflow call on a fresh trace database    *)
(***************************************************************************)
EmptyStore ==
    /\ schema = {}
    /\ migrations = {}
    /\ workflow_snapshots = {}
    /\ runs = <<>>
    /\ steps = <<>>
    /\ trace_events = <<>>
    /\ step_context_packages = <<>>
    /\ step_context_selected = <<>>
    /\ step_context_excluded = <<>>
    /\ step_gate_decisions = <<>>
    /\ provider_calls = <<>>
    /\ proposed_memory_writes = <<>>

Elsewhere ==
    /\ outcome_schema = {}
    /\ outcome_migrations = {}
    /\ outcome_events = <<>>
    /\ outcome_rulesets = <<>>
    /\ memory_trust = <<>>
    /\ outcome_projection_state = None
    /\ replay_report = None
    /\ gate_decisions = None
    /\ append_call = None
    /\ last_sql = None
    /\ policy_call = None
    /\ normalize_call = None

Init ==
    /\ \E wf \in Workflows : orch = <<NewOrch(wf, 1, "outcome", None)>>
    /\ EmptyStore
    /\ Elsewhere
    /\ clock = 1

Execute(r) ==
    \/ Migrate(r)
    \/ UpsertWorkflowSnapshot(r)
    \/ InsertRun(r)
    \/ UpdateRunManifest(r)
    \/ EmitWorkflowNormalized(r)
    \/ EmitRunStarted(r)
    \/ Schedule(r)
    \/ SkipInsert(r)
    \/ SkipEmit(r)
    \/ BeginStep(r)
    \/ PersistTrustDecisions(r)
    \/ EmitStepReady(r)
    \/ PersistContextPackages(r)
    \/ EmitStepInputPrepared(r)
    \/ EmitTrustGateEvaluated(r)
    \/ EmitStepPermissionPruned(r)
    \/ EmitPruneWarning(r)
    \/ EmitPruneIgnoredWarning(r)
    \/ PersistPolicyDecision(r)
    \/ EmitStepStarted(r)
    \/ HumanGateDecide(r)
    \/ EmitHumanGateEvaluated(r)
    \/ ProviderCallOk(r)
    \/ EmitProviderCalled(r)
    \/ ProviderCallErr(r)
    \/ UpdateStepStatus(r)
    \/ EmitStepFinished(r)
    \/ FinishRun(r)
    \/ EmitRunFinished(r)

Next == Execute(1)

Spec == Init /\ [][Next]_vars

(***************************************************************************)
(* Specification of successive execute_workflow calls on one trace         *)
(* database: each call begins when the one before it has returned          *)
(***************************************************************************)
CallSlots == {1, 2}

\* the workflows of the calls: a gated step with two dependents, one of them
\* on an unsupported provider; and three independent steps
CallWorkflows ==
    {MkWorkflow([i \in StepIdx |-> IF i = 1 THEN {} ELSE {StepKeys[1]}],
                [i \in StepIdx |-> CASE i = 1 -> "gated" [] i = NumSteps -> "broken"
                                     [] OTHER -> "remote"]),
     MkWorkflow([i \in StepIdx |-> {}], PlainKinds)}

\* source_yaml_hash of the YAML text a call loads: the text as first written,
\* or the same workflow written with another layout
YamlSources == {1, 2}

\* run_command: the next call is made, with the run_id given on its command
\* line
BeginCall(r) ==
    /\ orch[r].pc = "waiting"
    /\ \A q \in 1..(r - 1) : orch[q].pc \in {"done", "aborted"}
    /\ orch' = [orch EXCEPT ![r].pc = "idle"]
    /\ OnlyLocal

InitCalls ==
    /\ \E wfs \in [CallSlots -> CallWorkflows] : \E second_run_id \in CallSlots :
       \E second_source \in YamlSources :
          orch = [r \in CallSlots |->
                     [NewOrch([wfs[r] EXCEPT !.source_yaml_hash =
                                                IF r = 1 THEN 1 ELSE second_source],
                              IF r = 1 THEN 1 ELSE second_run_id, "outcome", None)
                         EXCEPT !.pc = "waiting"]]
    /\ EmptyStore
    /\ Elsewhere
    /\ clock = 1

NextCalls == \E r \in CallSlots : BeginCall(r) \/ Execute(r)

SpecCalls == InitCalls /\ [][NextCalls]_vars

(***************************************************************************)
(* replay_audit, and the specification of the audit: one execute_workflow  *)
(* call, and an event appended to the finished run through the trace store *)
(***************************************************************************)
\* the audit reading the events of every run as one sequence
list_events_of_all_runs(run_id) == trace_events

\* SELECT ... FROM trace_events WHERE run_id = ?1 ORDER BY event_seq ASC
list_events_for_run(run_id) == SelectSeq(trace_events, LAMBDA e : e.run_id = run_id)

\* Orchestrator::replay_audit: the ReplayReport
replay_audit(run_id) ==
    LET events == list_events_for_run(run_id) IN
    [run_id |-> run_id,
     events |-> Len(events),
     chain_valid |->
        \A i \in 1..Len(events) :
            events[i].prev_event_hash
               = IF i = 1 THEN None ELSE Some(events[i - 1].event_hash)]

\* TraceStore::append_event called by a writer other than emit_event, once the
\* run has returned: the event continues the chain of the run, and carries
\* the event_hash of its material or another digest; the INSERT stores what
\* it is given
StoreAppendEvent(r) ==
    LET o == orch[r]
        event == NewEvent(o, None, "warning", "external", <<0>>)
    IN
    /\ o.pc = "done"
    /\ \A i \in 1..Len(trace_events) : trace_events[i].actor_id # "external"
    /\ \E digest \in {event.event_hash, (event.event_hash % HashMod) + 1} :
          LET given == [event EXCEPT !.event_hash = digest] IN
          trace_events' = IF AppendEventAccepted(given) THEN append_event(given)
                          ELSE trace_events
    /\ clock' = Tick
    /\ orch' = orch
    /\ OnlyEvents

NextAudit == Execute(1) \/ StoreAppendEvent(1)

SpecAudit == Init /\ [][NextAudit]_vars

(***************************************************************************)
(* Specification of two execute_workflow calls running at the same time    *)
(* against one trace database, their store calls interleaved in any order  *)
(***************************************************************************)
\* a workflow that returns early, to keep the interleavings few: the first
\* step to run names an agent that is not defined, so the call returns the
\* error at the start of that step's transaction
ConcurrentWorkflows ==
    {MkWorkflow([i \in StepIdx |-> {}], [PlainKinds EXCEPT ![1] = "ghost_agent"])}

InitConcurrent ==
    /\ \E wfs \in [CallSlots -> ConcurrentWorkflows] :
          orch = [r \in CallSlots |-> NewOrch(wfs[r], r, "allow_all", None)]
    /\ EmptyStore
    /\ Elsewhere
    /\ clock = 1

\* the store calls such a call makes before it returns
NextConcurrent ==
    \E r \in CallSlots :
        \/ Migrate(r)
        \/ UpsertWorkflowSnapshot(r)
        \/ InsertRun(r)
        \/ UpdateRunManifest(r)
        \/ EmitWorkflowNormalized(r)
        \/ EmitRunStarted(r)
        \/ Schedule(r)
        \/ BeginStep(r)

SpecConcurrent == InitConcurrent /\ [][NextConcurrent]_vars

(***************************************************************************)
(* Specification of the storage layer: the two databases under raw SQL     *)
(* UPDATE and DELETE statements, before and after migration                *)
(***************************************************************************)
OUTCOME_MIGRATION_VERSION == 2

\* SCHEMA_OUTCOME_V1: the outcome_events table and its triggers
OutcomeSchemaV1 ==
    {Table("outcome_events"), Trigger("outcome_events", "UPDATE"),
     Trigger("outcome_events", "DELETE")}

SqlTables == TriggerGuardedTables \cup {"step_context_packages", "outcome_events"}

SqlSchema(t) == IF t = "outcome_events" THEN outcome_schema ELSE schema

SqlMigrated(t) ==
    IF t = "outcome_events" THEN OUTCOME_MIGRATION_VERSION \in outcome_migrations
    ELSE TRACE_SCHEMA_VERSION \in migrations

SqlRows(t) ==
    CASE t = "trace_events" -> trace_events
      [] t = "step_context_packages" -> step_context_packages
      [] t = "step_context_selected" -> step_context_selected
      [] t = "step_context_excluded" -> step_context_excluded
      [] t = "step_gate_decisions" -> step_gate_decisions
      [] t = "provider_calls" -> provider_calls
      [] t = "proposed_memory_writes" -> proposed_memory_writes
      [] t = "outcome_events" -> outcome_events

\* the statement's effect on table t; every other table is left as it is
SqlWrite(t, rows) ==
    /\ trace_events' = IF t = "trace_events" THEN rows ELSE trace_events
    /\ step_context_packages' = IF t = "step_context_packages" THEN rows ELSE step_context_packages
    /\ step_context_selected' = IF t = "step_context_selected" THEN rows ELSE step_context_selected
    /\ step_context_excluded' = IF t = "step_context_excluded" THEN rows ELSE step_context_excluded
    /\ step_gate_decisions' = IF t = "step_gate_decisions" THEN rows ELSE step_gate_decisions
    /\ provider_calls' = IF t = "provider_calls" THEN rows ELSE provider_calls
    /\ proposed_memory_writes' = IF t = "proposed_memory_writes" THEN rows ELSE proposed_memory_writes
    /\ outcome_events' = IF t = "outcome_events" THEN rows ELSE outcome_events

\* UPDATE t SET <column> = 'mutated'
SqlSet(t, row) ==
    CASE t = "trace_events" -> [row EXCEPT !.actor_id = "mutated"]
      [] t = "step_context_packages" -> [row EXCEPT !.package_hash = 0]
      [] t \in {"step_context_selected", "step_context_excluded"} ->
            [row EXCEPT !.record_type = "mutated"]
      [] t = "step_gate_decisions" -> [row EXCEPT !.decided_by = "mutated"]
      [] t = "provider_calls" -> [row EXCEPT !.status = "mutated"]
      [] t = "proposed_memory_writes" -> [row EXCEPT !.disposition = "mutated"]
      [] t = "outcome_events" -> [row EXCEPT !.writer = "mutated"]

\* rows of step_context_selected and step_context_excluded that reference
\* the package row
HasContextItems(package_row) ==
    \E t \in {"step_context_selected", "step_context_excluded"} :
        \E i \in 1..Len(SqlRows(t)) :
            /\ SqlRows(t)[i].step_id = package_row.step_id
            /\ SqlRows(t)[i].package_slot = package_row.package_slot

\* the row a legacy database holds in its step_gate_decisions table
LegacyGateDecision ==
    GateDecisionRecord(0, 0, "trust", "trust_gate", "memory_ref", None, None, None,
                       "rejected", "legacy")

\* SqliteTraceStore::migrate
StoreMigrate ==
    /\ schema' = SchemaAfterMigrate(schema)
    /\ migrations' = migrations \cup {TRACE_SCHEMA_VERSION}
    /\ UNCHANGED <<policy_call, normalize_call, orch, traceTables, outcomeVars, clock, last_sql>>

(***************************************************************************)
(* Outcome memory: the trust projection (memory-kernel-outcome-core) and   *)
(* its SQLite store.  An f32 confidence in [0.0, 1.0] is held as a         *)
(* fixed-point integer in 0..One.                                          *)
(***************************************************************************)
One == 10000

clamp(value, min, max) ==
    LET capped == IF value < max THEN value ELSE max
    IN IF capped > min THEN capped ELSE min

\* OutcomeRuleset::v1()
OutcomeRulesetV1 ==
    [ruleset_version |-> 1, alpha |-> 800, per_event_decay |-> 200,
     success_weight |-> 10000, edited_success_weight |-> 5000,
     failure_weight |-> -12500, ignored_weight |-> -1500,
     severity_low_multiplier |-> 10000, severity_med_multiplier |-> 12000,
     severity_high_multiplier |-> 15000,
     inheritance_factor |-> 7000, inheritance_cap |-> 8000, base_confidence |-> 5000,
     contradiction_degrade |-> 3000, contradiction_cap |-> 4000,
     validated_wins_required |-> 3, validated_window_size |-> 5,
     safe_min_confidence |-> 6000, exploration_min_confidence |-> 3000,
     exploration_probe_min_confidence |-> 1500, exploration_probe_max_confidence |-> 3000,
     exploration_probe_budget |-> 2000]

\* a second ruleset as upsert_ruleset installs one: v1 with other values
OutcomeRulesetV2 ==
    [OutcomeRulesetV1 EXCEPT !.ruleset_version = 2, !.alpha = 1100,
                             !.validated_wins_required = 2, !.validated_window_size = 2]

\* OutcomeEventInput, as far as validation and projection read it
EventInput(ruleset_version, event_type, escalated, severity, manual_confidence, override_cap) ==
    [ruleset_version |-> ruleset_version, event_type |-> event_type, edited |-> FALSE,
     escalated |-> escalated, severity |-> severity,
     manual_confidence |-> manual_confidence, override_cap |-> override_cap,
     writer |-> "tester", justification |-> "observed", occurred_at_offset |-> 0]

\* validate without its test of justification
validate_without_justification(input) ==
    /\ input.ruleset_version # 0
    /\ input.version # 0
    /\ input.writer \notin {"", " "}            \* trim().is_empty()
    /\ input.occurred_at_offset = 0
    /\ ~(input.escalated /\ input.severity = None)
    /\ ~(input.event_type = "manual_set_confidence" /\ input.manual_confidence = None)
    /\ input.manual_confidence # None =>
          (input.manual_confidence[1] >= 0 /\ input.manual_confidence[1] <= One)
    /\ ~(input.event_type = "inherited" /\ input.manual_confidence = None)

\* OutcomeEventInput::validate
validate(input) ==
    /\ input.ruleset_version # 0
    /\ input.version # 0
    /\ input.writer \notin {"", " "}            \* trim().is_empty()
    /\ input.justification \notin {"", " "}
    /\ input.occurred_at_offset = 0
    /\ ~(input.escalated /\ input.severity = None)
    /\ ~(input.event_type = "manual_set_confidence" /\ input.manual_confidence = None)
    /\ input.manual_confidence # None =>
          (input.manual_confidence[1] >= 0 /\ input.manual_confidence[1] <= One)
    /\ ~(input.event_type = "inherited" /\ input.manual_confidence = None)

severity_multiplier(ruleset, severity, escalated) ==
    IF ~escalated THEN One
    ELSE CASE severity = Some("med") -> ruleset.severity_med_multiplier
           [] severity = Some("high") -> ruleset.severity_high_multiplier
           [] OTHER -> ruleset.severity_low_multiplier

apply_scored_event(confidence_raw, baseline, base_weight, ruleset, event) ==
    LET step == (((ruleset.alpha * base_weight) \div One)
                    * severity_multiplier(ruleset, event.severity, event.escalated)) \div One
        bumped == clamp(confidence_raw + step, 0, One)
    IN clamp(baseline + ((bumped - baseline) * (One - ruleset.per_event_decay)) \div One,
             0, One)

push_window_entry(window, entry, window_size) ==
    LET pushed == Append(window, entry)
    IN IF Len(pushed) > window_size
       THEN SubSeq(pushed, Len(pushed) - window_size + 1, Len(pushed))
       ELSE pushed

WindowCount(window, entry) == Cardinality({i \in 1..Len(window) : window[i] = entry})

\* confidence_effective without the contradiction cap
EffectiveConfidenceUncapped(confidence_raw, cap_active, override_active, cap_value) ==
    confidence_raw

\* confidence_effective as project_memory_trust and apply_as_of_decay derive it
EffectiveConfidence(confidence_raw, cap_active, override_active, cap_value) ==
    IF cap_active /\ ~override_active THEN Min(confidence_raw, cap_value) ELSE confidence_raw

\* the status update that also recomputes the status of a retired key
StatusAfterEventRetiredRecomputed(trust_status, cap_active, window, ruleset) ==
    IF /\ ~cap_active
       /\ WindowCount(window, "success") >= ruleset.validated_wins_required
       /\ WindowCount(window, "failure") = 0
    THEN "validated" ELSE "active"

\* the status update that validates on the wins alone
StatusAfterEventFailuresIgnored(trust_status, cap_active, window, ruleset) ==
    IF trust_status = "retired" THEN "retired"
    ELSE IF /\ ~cap_active
            /\ WindowCount(window, "success") >= ruleset.validated_wins_required
         THEN "validated" ELSE "active"

\* the status update that closes each turn of the loop of project_memory_trust
StatusAfterEvent(trust_status, cap_active, window, ruleset) ==
    IF trust_status = "retired" THEN "retired"
    ELSE IF /\ ~cap_active
            /\ WindowCount(window, "success") >= ruleset.validated_wins_required
            /\ WindowCount(window, "failure") = 0
         THEN "validated" ELSE "active"

\* one turn of the loop of project_memory_trust over an event of the key
ProjectEvent(st, event, ruleset) ==
    LET scored(weight, entry) ==
            [st EXCEPT !.confidence_raw =
                           apply_scored_event(st.confidence_raw, st.baseline, weight, ruleset, event),
                       !.last_scored_at = Some(event.occurred_at),
                       !.wins_window = push_window_entry(@, entry, ruleset.validated_window_size)]
        matched ==
            CASE event.event_type = "inherited" ->
                   LET baseline == Min(clamp((ruleset.inheritance_factor * event.manual_confidence[1])
                                                \div One, 0, One),
                                       ruleset.inheritance_cap)
                   IN [st EXCEPT !.baseline = baseline, !.confidence_raw = baseline,
                                 !.contradiction_cap_active = FALSE, !.cap_value = One,
                                 !.manual_override_active = FALSE, !.wins_window = <<>>,
                                 !.trust_status = "active"]
              [] event.event_type = "success" ->
                   scored(IF event.edited THEN ruleset.edited_success_weight
                          ELSE ruleset.success_weight, "success")
              [] event.event_type = "failure" -> scored(ruleset.failure_weight, "failure")
              [] event.event_type = "ignored" -> scored(ruleset.ignored_weight, "ignored")
              [] event.event_type = "unknown" ->
                   [st EXCEPT !.wins_window =
                                  push_window_entry(@, "unknown", ruleset.validated_window_size)]
              [] event.event_type = "manual_set_confidence" ->
                   [st EXCEPT !.confidence_raw = clamp(event.manual_confidence[1], 0, One),
                              !.manual_override_active = event.override_cap]
              [] event.event_type = "manual_promote" ->
                   [st EXCEPT !.trust_status = "active", !.wins_window = <<>>]
              [] event.event_type = "manual_retire" -> [st EXCEPT !.trust_status = "retired"]
              [] event.event_type = "authoritative_contradiction" ->
                   [st EXCEPT !.contradiction_cap_active = TRUE,
                              !.cap_value = ruleset.contradiction_cap,
                              !.confidence_raw =
                                  clamp(st.confidence_raw - ruleset.contradiction_degrade, 0, One)]
    IN [matched EXCEPT
          !.prev_event_seq = event.event_seq,
          !.confidence_effective =
              EffectiveConfidence(matched.confidence_raw, matched.contradiction_cap_active,
                                  matched.manual_override_active, matched.cap_value),
          !.trust_status =
              StatusAfterEvent(matched.trust_status, matched.contradiction_cap_active,
                               matched.wins_window, ruleset)]

\* project_memory_trust: [err, trust], trust the Option<MemoryTrust>
project_memory_trust(events, rulesets) ==
    LET RECURSIVE Loop(_, _)
        Loop(st, i) ==
            IF i > Len(events) \/ st.err THEN st
            ELSE LET event == events[i] IN
                 IF \/ event.memory_id # events[1].memory_id
                    \/ event.version # events[1].version
                    \/ event.event_seq <= st.prev_event_seq
                    \/ event.ruleset_version \notin DOMAIN rulesets
                    \/ (event.event_type \in {"inherited", "manual_set_confidence"}
                          /\ event.manual_confidence = None)
                 THEN [st EXCEPT !.err = TRUE]
                 ELSE Loop(ProjectEvent(st, event, rulesets[event.ruleset_version]), i + 1)
    IN IF events = <<>> THEN [err |-> FALSE, trust |-> None]
       ELSE IF events[1].version = 0 \/ events[1].ruleset_version \notin DOMAIN rulesets
       THEN [err |-> TRUE, trust |-> None]
       ELSE LET baseline == rulesets[events[1].ruleset_version].base_confidence
                st == Loop([err |-> FALSE, prev_event_seq |-> 0, wins_window |-> <<>>,
                            baseline |-> baseline, confidence_raw |-> baseline,
                            confidence_effective |-> baseline, trust_status |-> "active",
                            contradiction_cap_active |-> FALSE, cap_value |-> One,
                            manual_override_active |-> FALSE, last_scored_at |-> None], 1)
                last == events[Len(events)]
            IN IF st.err THEN [err |-> TRUE, trust |-> None]
               ELSE [err |-> FALSE,
                     trust |-> Some(
                        [memory_id |-> events[1].memory_id, version |-> events[1].version,
                         confidence_raw |-> st.confidence_raw,
                         confidence_effective |-> st.confidence_effective,
                         baseline_confidence |-> st.baseline,
                         trust_status |-> st.trust_status,
                         contradiction_cap_active |-> st.contradiction_cap_active,
                         cap_value |-> st.cap_value,
                         manual_override_active |-> st.manual_override_active,
                         wins_last5 |-> WindowCount(st.wins_window, "success"),
                         failures_last5 |-> WindowCount(st.wins_window, "failure"),
                         last_event_seq |-> last.event_seq,
                         last_scored_at |-> st.last_scored_at,
                         updated_at |-> last.recorded_at])]

\* apply_as_of_decay; decay_term is exp(-lambda * elapsed days) of the as_of
\* asked for, One when as_of is not after last_scored_at
apply_as_of_decay(trust, decay_term) ==
    IF trust.trust_status = "retired" \/ trust.last_scored_at = None \/ decay_term = One
    THEN trust
    ELSE LET raw == clamp(trust.baseline_confidence
                            + ((trust.confidence_raw - trust.baseline_confidence) * decay_term)
                                 \div One, 0, One)
         IN [trust EXCEPT !.confidence_raw = raw,
                          !.confidence_effective =
                              EffectiveConfidence(raw, trust.contradiction_cap_active,
                                                  trust.manual_override_active, trust.cap_value)]

\* the safe threshold without the status test
SafeThresholdAnyStatus(trust, capped, ruleset) ==
    /\ ~capped
    /\ trust.confidence_effective >= ruleset.safe_min_confidence

\* the test gate_memory makes in safe mode, and first in exploration mode
SafeThreshold(trust, capped, ruleset) ==
    /\ trust.trust_status = "validated"
    /\ ~capped
    /\ trust.confidence_effective >= ruleset.safe_min_confidence

\* bucket is deterministic_bucket(memory_id:version:context_id)
gate_memory(trust, mode, bucket, ruleset) ==
    LET capped == trust.contradiction_cap_active /\ ~trust.manual_override_active
        safe == SafeThreshold(trust, capped, ruleset)
        reason ==
            IF trust.trust_status = "retired" THEN "excluded.retired"
            ELSE IF mode = "safe"
            THEN IF safe THEN "included.safe.validated_threshold"
                 ELSE "excluded.safe.threshold_or_status"
            ELSE IF safe THEN "included.exploration.safe_equivalent"
            ELSE IF /\ trust.trust_status = "active"
                    /\ trust.confidence_effective >= ruleset.exploration_min_confidence
            THEN "included.exploration.active_threshold"
            ELSE IF /\ trust.trust_status = "active"
                    /\ trust.confidence_effective >= ruleset.exploration_probe_min_confidence
                    /\ trust.confidence_effective < ruleset.exploration_probe_max_confidence
            THEN IF bucket <= ruleset.exploration_probe_budget
                 THEN "included.exploration.probe_bucket"
                 ELSE "excluded.exploration.probe_bucket"
            ELSE "excluded.exploration.threshold_or_status"
    IN [memory_id |-> trust.memory_id, version |-> trust.version,
        include |-> reason \in {"included.safe.validated_threshold",
                                "included.exploration.safe_equivalent",
                                "included.exploration.active_threshold",
                                "included.exploration.probe_bucket"},
        confidence_effective |-> trust.confidence_effective,
        trust_status |-> trust.trust_status, capped |-> capped,
        reason_codes |-> <<reason>>]

\* SqliteOutcomeStore::migrate
OutcomeMigrate ==
    /\ outcome_schema' = outcome_schema \cup OutcomeSchemaV1
    /\ outcome_migrations' = outcome_migrations \cup {OUTCOME_MIGRATION_VERSION}
    /\ outcome_rulesets' = [v \in DOMAIN outcome_rulesets \cup {1} |->
                                IF v = 1 THEN OutcomeRulesetV1 ELSE outcome_rulesets[v]]
    /\ outcome_projection_state' =
          IF outcome_projection_state = None THEN Some(0) ELSE outcome_projection_state
    /\ UNCHANGED <<policy_call, normalize_call, orch, storeVars, outcome_events, memory_trust, replay_report,
                   gate_decisions, append_call, clock, last_sql>>

\* the caller of the fixtures: a one-call orchestrator state for run_id
FixtureOrch(run_id) ==
    NewOrch(MkWorkflow([i \in StepIdx |-> {}], PlainKinds), run_id, "allow_all", None)

\* a run and its first step written through the store, once the rows of the
\* runs before it are written: upsert_workflow_snapshot, insert_run, insert_step
StoreRunFixture ==
    LET run_id == Cardinality(DOMAIN runs) + 1
        o == FixtureOrch(run_id)
    IN
    /\ TRACE_SCHEMA_VERSION \in migrations
    /\ run_id <= MaxSqlRows
    /\ \A id \in DOMAIN runs : \E i \in 1..Len(trace_events) : trace_events[i].run_id = id
    /\ workflow_snapshots' = upsert_workflow_snapshot(o.wf.normalized_hash, 1,
                                 o.wf.source_yaml_hash, o.wf.normalized_hash)
    /\ runs' = insert_run(RunRecord(run_id, o.wf, None))
    /\ steps' = insert_step(RunningStepRecord(o, run_id, 1, 0))
    /\ clock' = Tick
    /\ UNCHANGED <<orch, schema, migrations, trace_events, ctxTables, step_gate_decisions,
                   provider_calls, proposed_memory_writes, elsewhere>>

\* one row in every table of a step, written through the store: append_event,
\* append_context_package, append_gate_decision, append_provider_call,
\* append_proposed_memory_write
StoreRowsFixture ==
    \E run_id \in DOMAIN runs :
        LET o == FixtureOrch(run_id)
            step_id == StepIdOf(run_id, 1)
            package == Package(0, <<Item(1, 1, 11, "decision")>>, <<Item(4, 1, 41, "event")>>)
            event == NewEvent(o, Some(step_id), "step_started", "test", <<1>>)
            decision == TrustDecisionRecord(o, step_id,
                            TrustGateAttachment(Item(1, 1, 11, "decision"), TRUE, "trust.none"))
            call == ProviderCallRecord(o, step_id, "mock", "succeeded")
        IN
        /\ \A i \in 1..Len(trace_events) : trace_events[i].run_id # run_id
        /\ AppendEventAccepted(event)
        /\ ContextPackageAccepted(step_context_packages, PackageRow(o, step_id, package))
        /\ AppendGateDecisionAccepted(schema, decision)
        /\ ProviderCallAccepted(call)
        /\ trace_events' = append_event(event)
        /\ step_context_packages' =
              Append(step_context_packages, PackageRow(o, step_id, package))
        /\ step_context_selected' =
              Append(step_context_selected, ItemRow(step_id, 0, 1, package.selected_items[1]))
        /\ step_context_excluded' =
              Append(step_context_excluded, ItemRow(step_id, 0, 1, package.excluded_items[1]))
        /\ step_gate_decisions' = Append(step_gate_decisions, decision)
        /\ provider_calls' = Append(provider_calls, call)
        /\ proposed_memory_writes' =
              Append(proposed_memory_writes,
                     [run_id |-> run_id, step_id |-> step_id, proposal_index |-> 0,
                      proposal_hash |-> hash_json(<<run_id>>), disposition |-> "proposed"])
        /\ clock' = Tick
        /\ UNCHANGED <<orch, schema, migrations, workflow_snapshots, runs, steps, elsewhere>>

\* INSERT INTO outcome_events(...)
OutcomeFixture ==
    /\ Table("outcome_events") \in outcome_schema
    /\ Len(outcome_events) < MaxSqlRows
    /\ outcome_events' =
          Append(outcome_events,
                 [event_seq |-> Len(outcome_events) + 1, event_id |-> Len(outcome_events) + 1,
                  ruleset_version |-> 1, memory_id |-> 1, version |-> 1,
                  event_type |-> "success", recorded_at |-> 1, writer |-> "tester"])
    /\ UNCHANGED <<policy_call, normalize_call, orch, storeVars, outcome_schema, outcome_migrations, projectionVars, clock, last_sql>>

SqlStatement(op, t, refused) ==
    Some([op |-> op, table |-> t, migrated |-> SqlMigrated(t), refused |-> refused])

\* UPDATE t SET ... WHERE <row i>: a BEFORE UPDATE trigger on t raises FAIL
RawUpdate ==
    \E t \in SqlTables : \E i \in 1..Len(SqlRows(t)) :
        LET refused == Trigger(t, "UPDATE") \in SqlSchema(t) IN
        /\ SqlWrite(t, IF refused THEN SqlRows(t)
                       ELSE [SqlRows(t) EXCEPT ![i] = SqlSet(t, @)])
        /\ last_sql' = SqlStatement("UPDATE", t, refused)
        /\ UNCHANGED <<policy_call, normalize_call, orch, schema, migrations, workflow_snapshots, runs, steps,
                       outcome_schema, outcome_migrations, projectionVars, clock>>

\* DELETE FROM t WHERE <row i>: a BEFORE DELETE trigger on t raises FAIL; with
\* PRAGMA foreign_keys = ON on the connection, a referenced row is kept
RawDelete ==
    \E t \in SqlTables : \E i \in 1..Len(SqlRows(t)) : \E foreign_keys \in BOOLEAN :
        LET refused ==
                \/ Trigger(t, "DELETE") \in SqlSchema(t)
                \/ /\ t = "step_context_packages"
                   /\ foreign_keys
                   /\ HasContextItems(SqlRows(t)[i])
        IN
        /\ SqlWrite(t, IF refused THEN SqlRows(t)
                       ELSE SubSeq(SqlRows(t), 1, i - 1)
                                \o SubSeq(SqlRows(t), i + 1, Len(SqlRows(t))))
        /\ last_sql' = SqlStatement("DELETE", t, refused)
        /\ UNCHANGED <<policy_call, normalize_call, orch, schema, migrations, workflow_snapshots, runs, steps,
                       outcome_schema, outcome_migrations, projectionVars, clock>>

\* a gate decision offered to the migrated trace database, through the store
\* (append_gate_decision: the application check, then the INSERT) or as a
\* raw INSERT INTO step_gate_decisions(...), which only the schema judges
InsertGateDecision ==
    \E via \in {"append_gate_decision", "INSERT"} :
    \E run_id \in DOMAIN runs \cup {0} :
    \E kind \in {"trust", "policy"} :
    \E mid \in {None, Some(1)} : \E mvid \in {None, Some(11)} :
        LET d == GateDecisionRecord(run_id, StepIdOf(run_id, 1), kind,
                     IF kind = "trust" THEN "trust_gate" ELSE "context_permission",
                     IF kind = "trust" THEN "memory_ref" ELSE "context_items",
                     mid, IF mid = None THEN None ELSE Some(1), mvid, "rejected", "new")
            accepted ==
                IF via = "INSERT" THEN GateDecisionInsertAccepted(schema, d)
                ELSE AppendGateDecisionAccepted(schema, d)
        IN
        /\ SqlMigrated("step_gate_decisions")
        /\ Len(step_gate_decisions) <= MaxSqlRows
        /\ step_gate_decisions' =
              IF accepted THEN Append(step_gate_decisions, d) ELSE step_gate_decisions
        /\ last_sql' = Some([op |-> via, table |-> "step_gate_decisions",
                             migrated |-> SqlMigrated("step_gate_decisions"),
                             refused |-> ~accepted, lacks_identity |-> LacksIdentity(d)])
        /\ UNCHANGED <<policy_call, normalize_call, orch, schema, migrations, workflow_snapshots, runs, steps,
                       trace_events, ctxTables, provider_calls, proposed_memory_writes,
                       outcomeVars, clock>>

\* a fresh pair of databases, or a trace database created before the
\* triggers and the CHECK of step_gate_decisions existed
InitStorage ==
    /\ orch = <<>>
    /\ clock = 1
    /\ \E legacy \in BOOLEAN :
          /\ schema = IF legacy THEN {Table("step_gate_decisions")} ELSE {}
          /\ step_gate_decisions = IF legacy THEN <<LegacyGateDecision>> ELSE <<>>
    /\ migrations = {}
    /\ workflow_snapshots = {}
    /\ runs = <<>>
    /\ steps = <<>>
    /\ trace_events = <<>>
    /\ step_context_packages = <<>>
    /\ step_context_selected = <<>>
    /\ step_context_excluded = <<>>
    /\ provider_calls = <<>>
    /\ proposed_memory_writes = <<>>
    /\ Elsewhere

NextStorage ==
    \/ StoreMigrate
    \/ OutcomeMigrate
    \/ StoreRunFixture
    \/ StoreRowsFixture
    \/ OutcomeFixture
    \/ RawUpdate
    \/ RawDelete

SpecStorage == InitStorage /\ [][NextStorage]_vars

\* the same databases under the writes of step_gate_decisions alone
NextGateDecisions ==
    \/ StoreMigrate
    \/ StoreRunFixture
    \/ StoreRowsFixture
    \/ InsertGateDecision

SpecGateDecisions == InitStorage /\ [][NextGateDecisions]_vars

\* the keys (memory_id, version) the events are about: two versions of a memory
MemoryKeys == {<<1, 1>>, <<1, 2>>}

KeyOf(row) == <<row.memory_id, row.version>>

\* the keys of the events after from_event_seq
keys_with_events_after(from_event_seq) ==
    {KeyOf(outcome_events[i]) :
        i \in {j \in 1..Len(outcome_events) : outcome_events[j].event_seq > from_event_seq}}

\* SELECT DISTINCT memory_id, version FROM outcome_events WHERE event_seq >= from
keys_with_events_from(from_event_seq) ==
    {KeyOf(outcome_events[i]) :
        i \in {j \in 1..Len(outcome_events) : outcome_events[j].event_seq >= from_event_seq}}

\* the stream cut down to the events after the cursor, or to the newest
\* event of the key when the cursor is past it
list_events_for_key_after_cursor(key) ==
    LET cursor == IF outcome_projection_state = None THEN 0 ELSE outcome_projection_state[1]
        newer == SelectSeq(outcome_events,
                           LAMBDA event : KeyOf(event) = key /\ event.event_seq > cursor)
        all == SelectSeq(outcome_events, LAMBDA event : KeyOf(event) = key)
    IN IF newer # <<>> THEN newer ELSE <<all[Len(all)]>>

list_events_for_key(key) == SelectSeq(outcome_events, LAMBDA event : KeyOf(event) = key)

\* SELECT MAX(event_seq) FROM outcome_events, 0 for none
latest_event_seq ==
    IF outcome_events = <<>> THEN 0 ELSE outcome_events[Len(outcome_events)].event_seq

\* OutcomeRuleset::validate, over the fields the projection and the gate read
ruleset_validate(ruleset) ==
    /\ ruleset.ruleset_version # 0
    /\ \A value \in {ruleset.alpha, ruleset.per_event_decay, ruleset.base_confidence,
                      ruleset.inheritance_factor, ruleset.inheritance_cap,
                      ruleset.contradiction_cap, ruleset.safe_min_confidence,
                      ruleset.exploration_min_confidence,
                      ruleset.exploration_probe_min_confidence,
                      ruleset.exploration_probe_max_confidence,
                      ruleset.exploration_probe_budget} :
          value >= 0 /\ value <= One
    /\ ruleset.validated_window_size # 0
    /\ ruleset.validated_wins_required <= ruleset.validated_window_size
    /\ ruleset.exploration_probe_min_confidence <= ruleset.exploration_probe_max_confidence

\* SqliteOutcomeStore::upsert_ruleset: an invalid ruleset is refused, a valid
\* one replaces the row of its version (ON CONFLICT DO UPDATE)
upsert_ruleset(ruleset) ==
    /\ OUTCOME_MIGRATION_VERSION \in outcome_migrations
    /\ outcome_rulesets' =
          IF ruleset_validate(ruleset)
          THEN [v \in DOMAIN outcome_rulesets \cup {ruleset.ruleset_version} |->
                   IF v = ruleset.ruleset_version THEN ruleset ELSE outcome_rulesets[v]]
          ELSE outcome_rulesets
    /\ UNCHANGED <<policy_call, normalize_call, orch, storeVars, outcome_schema, outcome_migrations, outcome_events,
                   memory_trust, outcome_projection_state, replay_report, gate_decisions,
                   append_call,
                   clock, last_sql>>

\* SqliteOutcomeStore::append_event, while the store holds fewer than limit events
append_event_within(key, input, limit) ==
    /\ OUTCOME_MIGRATION_VERSION \in outcome_migrations
    /\ Len(outcome_events) < limit
    /\ LET result == IF ~validate([memory_id |-> key[1], version |-> key[2]] @@ input)
                     THEN "event validation failed"
                     ELSE IF input.ruleset_version \notin DOMAIN outcome_rulesets
                     THEN "missing ruleset_version"
                     ELSE "ok"
           accepted == result = "ok"
           event == [event_seq |-> latest_event_seq + 1, event_id |-> latest_event_seq + 1,
                     ruleset_version |-> input.ruleset_version,
                     memory_id |-> key[1], version |-> key[2],
                     event_type |-> input.event_type,
                     occurred_at |-> clock, recorded_at |-> clock, writer |-> input.writer,
                     edited |-> input.edited, escalated |-> input.escalated,
                     severity |-> input.severity,
                     manual_confidence |-> input.manual_confidence,
                     override_cap |-> input.override_cap]
       IN /\ outcome_events' = IF accepted THEN Append(outcome_events, event) ELSE outcome_events
          /\ replay_report' = IF accepted THEN None ELSE replay_report
          /\ gate_decisions' = IF accepted THEN None ELSE gate_decisions
          /\ append_call' = Some([key |-> key, input |-> input, result |-> result])
    /\ UNCHANGED <<policy_call, normalize_call, orch, storeVars, outcome_schema, outcome_migrations, outcome_rulesets,
                   memory_trust, outcome_projection_state, clock, last_sql>>

\* SqliteOutcomeStore::append_event
outcome_append_event(key, input) == append_event_within(key, input, MaxEvents)

\* the keys at which replay stops with an error: the projection of the key's
\* events fails, or upsert_memory_trust violates the CHECKs of the
\* memory_trust row on wins_last5 and failures_last5
replay_failed_keys(keys) ==
    {key \in keys :
        LET projected == project_memory_trust(list_events_for_key(key), outcome_rulesets)
        IN \/ projected.err
           \/ projected.trust[1].wins_last5 > 5
           \/ projected.trust[1].failures_last5 > 5}

\* SqliteOutcomeStore::replay
replay(from_event_seq) ==
    LET keys == keys_with_events_from(IF from_event_seq = None THEN 0 ELSE from_event_seq[1])
        projected == [key \in keys |->
                         project_memory_trust(list_events_for_key(key), outcome_rulesets)]
        failed == replay_failed_keys(keys)
        before(a, b) == a[1] < b[1] \/ (a[1] = b[1] /\ a[2] < b[2])
        upserted == {key \in keys : \A other \in failed : before(key, other)}
        last_ruleset_version(key) ==
            list_events_for_key(key)[Len(list_events_for_key(key))].ruleset_version
    IN /\ OUTCOME_MIGRATION_VERSION \in outcome_migrations
       /\ memory_trust' =
             [key \in DOMAIN memory_trust \cup upserted |->
                 IF key \in upserted
                 THEN projected[key].trust[1]
                         @@ [last_ruleset_version |-> last_ruleset_version(key)]
                 ELSE memory_trust[key]]
       /\ outcome_projection_state' =
             IF failed = {} THEN Some(latest_event_seq) ELSE outcome_projection_state
       /\ replay_report' =
             IF failed = {}
             THEN Some([from_event_seq |-> from_event_seq,
                        projected_keys |-> Cardinality(keys),
                        processed_events |->
                            Cardinality({i \in 1..Len(outcome_events) :
                                            KeyOf(outcome_events[i]) \in keys}),
                        last_event_seq |-> latest_event_seq])
             ELSE None
       /\ gate_decisions' = None
       /\ UNCHANGED <<policy_call, normalize_call, orch, storeVars, outcome_schema, outcome_migrations, outcome_events,
                      outcome_rulesets, append_call, clock, last_sql>>

\* the stale keys under a comparison that counts a current snapshot as stale
projector_stale_keys_inclusive ==
    {key \in keys_with_events_from(0) :
        \/ key \notin DOMAIN memory_trust
        \/ memory_trust[key].last_event_seq
              <= list_events_for_key(key)[Len(list_events_for_key(key))].event_seq}

\* SqliteOutcomeStore::projector_stale_keys
projector_stale_keys ==
    {key \in keys_with_events_from(0) :
        \/ key \notin DOMAIN memory_trust
        \/ memory_trust[key].last_event_seq
              < list_events_for_key(key)[Len(list_events_for_key(key))].event_seq}

\* SqliteOutcomeStore::projector_check over projector_status
projector_check ==
    LET projected_event_seq ==
            IF outcome_projection_state = None THEN 0 ELSE outcome_projection_state[1]
        lag_events == IF latest_event_seq > projected_event_seq
                      THEN latest_event_seq - projected_event_seq ELSE 0
        tracked_keys == Cardinality(keys_with_events_from(0))
        trust_rows == Cardinality(DOMAIN memory_trust)
    IN [healthy |-> lag_events = 0 /\ projector_stale_keys = {} /\ tracked_keys = trust_rows,
        lag_events |-> lag_events, tracked_keys |-> tracked_keys, trust_rows |-> trust_rows,
        stale_trust_rows |-> Cardinality(projector_stale_keys),
        trust_rows_without_events |->
            Cardinality(DOMAIN memory_trust \ keys_with_events_from(0)),
        stale_key_sample |-> projector_stale_keys]

\* SqliteOutcomeStore::gate_preview of every key
gate_preview(mode, decay_term, bucket) ==
    /\ OUTCOME_MIGRATION_VERSION \in outcome_migrations
    /\ gate_decisions' =
          Some([mode |-> mode, decay_term |-> decay_term, decisions |->
               [key \in MemoryKeys |->
                  IF key \notin DOMAIN memory_trust
                  THEN [memory_id |-> key[1], version |-> key[2], include |-> FALSE,
                        confidence_effective |-> 0, trust_status |-> "active",
                        capped |-> FALSE, reason_codes |-> <<"excluded.no_trust_snapshot">>]
                  ELSE gate_memory(apply_as_of_decay(memory_trust[key], decay_term), mode,
                                   bucket, outcome_rulesets[memory_trust[key].last_ruleset_version])]])
    /\ UNCHANGED <<policy_call, normalize_call, orch, storeVars, outcome_schema, outcome_migrations, outcome_events,
                   outcome_rulesets, memory_trust, outcome_projection_state, replay_report,
                   append_call, clock, last_sql>>

(***************************************************************************)
(* Specification of the outcome store: events of two keys appended,        *)
(* replayed in full or from a seq                                          *)
(***************************************************************************)
StoreEventInputs ==
    {EventInput(1, "success", FALSE, None, None, FALSE),
     EventInput(2, "success", FALSE, None, None, FALSE)}

InitOutcome ==
    /\ orch = <<>>
    /\ clock = 1
    /\ EmptyStore
    /\ Elsewhere

NextOutcome ==
    \/ OutcomeMigrate
    \/ upsert_ruleset(OutcomeRulesetV2)
    \/ \E key \in MemoryKeys : \E input \in StoreEventInputs : outcome_append_event(key, input)
    \/ \E from \in {None, Some(2), Some(MaxEvents)} : replay(from)

SpecOutcome == InitOutcome /\ [][NextOutcome]_vars

(***************************************************************************)
(* Specification of the projection: every stream of events of one key,     *)
(* projected by a full replay after each append                            *)
(***************************************************************************)
EventInputs ==
    {EventInput(1, "success", FALSE, None, None, FALSE),
     EventInput(2, "success", FALSE, None, None, FALSE),
     EventInput(1, "failure", TRUE, Some("high"), None, FALSE),
     EventInput(1, "ignored", FALSE, None, None, FALSE),
     EventInput(1, "unknown", FALSE, None, None, FALSE),
     EventInput(1, "manual_set_confidence", FALSE, None, Some(9000), TRUE),
     EventInput(1, "manual_set_confidence", FALSE, None, Some(9000), FALSE),
     EventInput(1, "manual_promote", FALSE, None, None, FALSE),
     EventInput(1, "manual_retire", FALSE, None, None, FALSE),
     EventInput(1, "authoritative_contradiction", FALSE, None, None, FALSE),
     EventInput(1, "inherited", FALSE, None, Some(0), FALSE)}

InitProjection ==
    /\ orch = <<>>
    /\ clock = 1
    /\ EmptyStore
    /\ outcome_schema = OutcomeSchemaV1
    /\ outcome_migrations = {OUTCOME_MIGRATION_VERSION}
    /\ outcome_events = <<>>
    /\ outcome_rulesets = <<OutcomeRulesetV1, OutcomeRulesetV2>>
    /\ memory_trust = <<>>
    /\ outcome_projection_state = Some(0)
    /\ replay_report = None
    /\ gate_decisions = None
    /\ append_call = None
    /\ last_sql = None
    /\ policy_call = None
    /\ normalize_call = None

NextProjection ==
    \/ \E input \in EventInputs :
          outcome_projection_state = Some(latest_event_seq)
             /\ outcome_append_event(<<1, 1>>, input)
    \/ replay(None)

SpecProjection == InitProjection /\ [][NextProjection]_vars

(***************************************************************************)
(* Specification of the projector check: the outcome store under appends,  *)
(* replays and snapshot rows written to memory_trust by plain SQL          *)
(***************************************************************************)
\* INSERT INTO memory_trust(...) VALUES (...): the table has a primary key
\* (memory_id, version) and CHECKs on its columns, no trigger and no foreign
\* key, so a row of a key without events is accepted
RawInsertTrust(key) ==
    /\ OUTCOME_MIGRATION_VERSION \in outcome_migrations
    /\ key \notin DOMAIN memory_trust
    /\ key[2] >= 1
    /\ memory_trust' =
          [k \in DOMAIN memory_trust \cup {key} |->
              IF k = key
              THEN [memory_id |-> key[1], version |-> key[2],
                    confidence_raw |-> One \div 2, confidence_effective |-> One \div 2,
                    baseline_confidence |-> One \div 2, trust_status |-> "active",
                    contradiction_cap_active |-> FALSE, cap_value |-> One,
                    manual_override_active |-> FALSE, wins_last5 |-> 0, failures_last5 |-> 0,
                    last_event_seq |-> 0, last_scored_at |-> None, updated_at |-> clock,
                    last_ruleset_version |-> 1]
              ELSE memory_trust[k]]
    /\ gate_decisions' = None
    /\ UNCHANGED <<policy_call, normalize_call, orch, storeVars, outcome_schema,
                   outcome_migrations, outcome_events, outcome_rulesets,
                   outcome_projection_state, replay_report, append_call, clock, last_sql>>

NextCheck ==
    \/ \E key \in MemoryKeys : \E input \in StoreEventInputs : outcome_append_event(key, input)
    \/ \E from \in {None, Some(2)} : replay(from)
    \/ \E key \in MemoryKeys \cup {<<2, 1>>} : RawInsertTrust(key)

SpecCheck == InitProjection /\ [][NextCheck]_vars

\* the same store under the events the gate tells apart, with gate_preview
GateEventInputs ==
    {EventInput(1, "success", FALSE, None, None, FALSE),
     EventInput(1, "manual_set_confidence", FALSE, None, Some(9000), FALSE),
     EventInput(1, "manual_set_confidence", FALSE, None, Some(2000), TRUE),
     EventInput(1, "manual_retire", FALSE, None, None, FALSE),
     EventInput(1, "authoritative_contradiction", FALSE, None, None, FALSE)}

NextGate ==
    \/ \E input \in GateEventInputs :
          outcome_projection_state = Some(latest_event_seq)
             /\ outcome_append_event(<<1, 1>>, input)
    \/ replay(None)
    \/ \E mode \in {"safe", "exploration"} : \E decay_term \in {One, One \div 2} :
       \E bucket \in {0, One} :
          /\ replay_report # None
          /\ gate_decisions = None
          /\ mode = "safe" => bucket = 0
          /\ mode = "exploration" => decay_term = One
          /\ gate_preview(mode, decay_term, bucket)

SpecGate == InitProjection /\ [][NextGate]_vars

(***************************************************************************)
(* Specification of the write rules: append_event called with inputs that  *)
(* keep or break one rule each, on a store that holds ruleset 1 alone      *)
(***************************************************************************)
AppendKeys == {<<1, 1>>, <<1, 0>>}

ValidAppendInputs ==
    {EventInput(1, "success", FALSE, None, None, FALSE),
     EventInput(1, "manual_set_confidence", FALSE, None, Some(One), FALSE)}

InvalidAppendInputs ==
    {EventInput(0, "success", FALSE, None, None, FALSE),
     EventInput(2, "success", FALSE, None, None, FALSE),
     [EventInput(1, "success", FALSE, None, None, FALSE) EXCEPT !.writer = " "],
     [EventInput(1, "success", FALSE, None, None, FALSE) EXCEPT !.justification = ""],
     [EventInput(1, "success", FALSE, None, None, FALSE) EXCEPT !.occurred_at_offset = 1],
     EventInput(1, "failure", TRUE, None, None, FALSE),
     EventInput(1, "manual_set_confidence", FALSE, None, None, FALSE),
     EventInput(1, "manual_set_confidence", FALSE, None, Some(One + 1), FALSE),
     EventInput(1, "success", FALSE, None, Some(-1), FALSE),
     EventInput(1, "inherited", FALSE, None, None, FALSE)}

InitAppend ==
    /\ orch = <<>>
    /\ clock = 1
    /\ EmptyStore
    /\ outcome_schema = OutcomeSchemaV1
    /\ outcome_migrations = {OUTCOME_MIGRATION_VERSION}
    /\ outcome_events = <<>>
    /\ outcome_rulesets = <<OutcomeRulesetV1>>
    /\ memory_trust = <<>>
    /\ outcome_projection_state = Some(0)
    /\ replay_report = None
    /\ gate_decisions = None
    /\ append_call = None
    /\ last_sql = None
    /\ policy_call = None
    /\ normalize_call = None

NextAppend ==
    \/ \E key \in AppendKeys : \E input \in ValidAppendInputs \cup InvalidAppendInputs :
          outcome_append_event(key, input)
    \/ replay(None)

SpecAppend == InitAppend /\ [][NextAppend]_vars

(***************************************************************************)
(* Specification of the ruleset registry: rulesets upserted between the    *)
(* appends and the full replays of one key's events                        *)
(***************************************************************************)
\* version 1 upserted again with another alpha
OutcomeRulesetV1Revised == [OutcomeRulesetV1 EXCEPT !.alpha = 1100]

\* a version 2 whose window holds six entries
OutcomeRulesetWide ==
    [OutcomeRulesetV1 EXCEPT !.ruleset_version = 2, !.validated_window_size = 6]

\* a version 2 that validate refuses
OutcomeRulesetNoWindow ==
    [OutcomeRulesetV1 EXCEPT !.ruleset_version = 2, !.validated_wins_required = 0,
                             !.validated_window_size = 0]

RulesetInputs == {OutcomeRulesetV1Revised, OutcomeRulesetWide, OutcomeRulesetNoWindow}

NextRulesets ==
    \/ \E ruleset \in RulesetInputs : upsert_ruleset(ruleset)
    \/ \E input \in StoreEventInputs : append_event_within(<<1, 1>>, input, MaxWindowEvents)
    \/ replay(None)

SpecRulesets == InitAppend /\ [][NextRulesets]_vars

(***************************************************************************)
(* Specification of the policy: apply_context_permissions called on        *)
(* packages and permissions drawn from small sets                          *)
(***************************************************************************)
\* the packages of a step: one package of up to MaxSelected selected items
\* and up to one excluded item, alone or followed by a second package
PolicyPackages ==
    LET pool == {Item(1, 1, 11, "decision"), Item(2, 1, 21, "preference"),
                 Item(3, 1, 31, "constraint"), Item(5, 1, 51, "decision")}
        selections == {sel \in UNION {[1..n -> pool] : n \in 0..MaxSelected} :
                          \A i, j \in 1..Len(sel) : i # j => sel[i] # sel[j]}
        exclusions == {<<>>, <<Item(4, 1, 41, "event")>>, <<Item(6, 1, 61, "decision")>>}
        second == Package(1, <<Item(3, 1, 31, "constraint"), Item(1, 2, 12, "decision")>>,
                          <<Item(4, 1, 41, "event")>>)
    IN UNION {{<<Package(0, sel, exc)>>, <<Package(0, sel, exc), second>>} :
                 sel \in selections, exc \in exclusions}

PolicyPermissions ==
    {Permissions(types, max, FALSE) :
        types \in {{}, {"decision"}, {"decision", "constraint"}},
        max \in {None, Some(0), Some(1), Some(2)}}

InitPolicy ==
    /\ orch = <<>>
    /\ clock = 1
    /\ EmptyStore
    /\ outcome_schema = {}
    /\ outcome_migrations = {}
    /\ outcome_events = <<>>
    /\ outcome_rulesets = <<>>
    /\ memory_trust = <<>>
    /\ outcome_projection_state = None
    /\ replay_report = None
    /\ gate_decisions = None
    /\ append_call = None
    /\ last_sql = None
    /\ normalize_call = None
    /\ \E packages \in PolicyPackages : \E permissions \in PolicyPermissions :
          policy_call = Some([packages |-> packages, permissions |-> permissions,
                              result |-> None])

\* the call returns
ApplyContextPermissions ==
    /\ policy_call # None
    /\ policy_call[1].result = None
    /\ policy_call' =
          Some([policy_call[1] EXCEPT
                  !.result = Some(apply_context_permissions(policy_call[1].packages,
                                                            policy_call[1].permissions))])
    /\ UNCHANGED <<orch, storeVars, outcomeVars, clock, last_sql, normalize_call>>

NextPolicy == ApplyContextPermissions

SpecPolicy == InitPolicy /\ [][NextPolicy]_vars

(***************************************************************************)
(* multi-agent-center-workflow: normalize_workflow_yaml on the parsed      *)
(* workflow. A name is the tuple of its bytes; agents, gates, depends_on   *)
(* and gate_points are lists of names in the order the source gives them.  *)
(***************************************************************************)
\* str::cmp
RECURSIVE StrLess(_, _)
StrLess(a, b) ==
    IF b = <<>> THEN FALSE
    ELSE IF a = <<>> THEN TRUE
    ELSE IF Head(a) # Head(b) THEN Head(a) < Head(b)
    ELSE StrLess(Tail(a), Tail(b))

\* str::trim: the spaces (byte 32) at both ends removed
RECURSIVE trim(_)
trim(name) ==
    IF name # <<>> /\ Head(name) = 32 THEN trim(Tail(name))
    ELSE IF name # <<>> /\ name[Len(name)] = 32 THEN trim(SubSeq(name, 1, Len(name) - 1))
    ELSE name

\* slice::sort, slice::sort_by on the name: a stable sort
RECURSIVE sort(_)
sort(names) ==
    IF names = <<>> THEN <<>>
    ELSE LET last == names[Len(names)]
             rest == sort(SubSeq(names, 1, Len(names) - 1))
             before == SelectSeq(rest, LAMBDA x : ~StrLess(last, x))
             after == SelectSeq(rest, LAMBDA x : StrLess(last, x))
         IN before \o <<last>> \o after

\* Vec::dedup: consecutive equal names collapse
RECURSIVE dedup(_)
dedup(names) ==
    IF Len(names) < 2 THEN names
    ELSE IF names[1] = names[2] THEN dedup(Tail(names))
    ELSE <<names[1]>> \o dedup(Tail(names))

\* gates sorted by gate_name, and trimmed after the sort
normalize_gates(gates) == [i \in 1..Len(gates) |-> trim(sort(gates)[i])]

normalize_workflow(workflow) ==
    [normalization_version |-> 1,
     agents |-> sort(workflow.agents),
     gates |-> normalize_gates(workflow.gates),
     steps |-> [i \in 1..Len(workflow.steps) |->
                  [step_key |-> workflow.steps[i].step_key,
                   agent_name |-> workflow.steps[i].agent_name,
                   depends_on |-> dedup(sort(workflow.steps[i].depends_on)),
                   gate_points |-> dedup(sort(workflow.steps[i].gate_points))]]]

Names(list) == {list[i] : i \in 1..Len(list)}

\* validate_workflow on the parsed workflow: names not empty, agent names and
\* step keys unique, every reference resolves, no dependency cycle
validate_parsed_workflow(workflow) ==
    LET step_list == workflow.steps
        step_keys == {step_list[i].step_key : i \in 1..Len(step_list)}
    IN
    /\ <<>> \notin Names(workflow.agents) \cup step_keys
    /\ Cardinality(Names(workflow.agents)) = Len(workflow.agents)
    /\ Cardinality(step_keys) = Len(step_list)
    /\ \A i \in 1..Len(step_list) :
          /\ step_list[i].agent_name \in Names(workflow.agents)
          /\ Names(step_list[i].depends_on) \subseteq step_keys
          /\ Names(step_list[i].gate_points) \subseteq Names(workflow.gates)
    /\ DOMAIN DetectCycleRemaining(
           [k \in step_keys |->
               Names(step_list[CHOOSE i \in 1..Len(step_list) : step_list[i].step_key = k].depends_on)]) = {}

\* serde_json::to_value: the serialized fields, name after name
RECURSIVE NamesJson(_)
NamesJson(list) ==
    IF list = <<>> THEN <<1>> ELSE Head(list) \o <<0>> \o NamesJson(Tail(list))

RECURSIVE StepsJson(_)
StepsJson(step_list) ==
    IF step_list = <<>> THEN <<1>>
    ELSE Head(step_list).step_key \o <<0>> \o Head(step_list).agent_name \o <<0>>
            \o NamesJson(Head(step_list).depends_on) \o NamesJson(Head(step_list).gate_points)
            \o StepsJson(Tail(step_list))

normalized_json(workflow) ==
    <<workflow.normalization_version>> \o NamesJson(workflow.agents)
        \o NamesJson(workflow.gates) \o StepsJson(workflow.steps)

\* Err, or the envelope
normalize_workflow_yaml(workflow) ==
    IF ~validate_parsed_workflow(workflow) THEN None
    ELSE LET normalized == normalize_workflow(workflow) IN
         IF ~validate_parsed_workflow(normalized) THEN None
         ELSE Some([normalized_workflow |-> normalized,
                    normalized_json |-> normalized_json(normalized),
                    normalized_hash |-> hash_json(normalized_json(normalized))])

(***************************************************************************)
(* Specification of the normalization: a workflow source drawn from small  *)
(* sets, normalized, and its canonical form normalized again               *)
(***************************************************************************)
MaxGates == 2

RECURSIVE ListsUpTo(_, _)
ListsUpTo(S, n) ==
    IF n = 0 THEN {<<>>}
    ELSE ListsUpTo(S, n - 1) \cup {Append(l, x) : l \in {m \in ListsUpTo(S, n - 1) : Len(m) = n - 1}, x \in S}

\* the names "a", "b" and " b"
GateNames == {<<97>>, <<98>>, <<32, 98>>}

\* two agents in either order, any list of up to MaxGates gates, and two
\* steps, the second with a list of dependencies and of gate points
WorkflowSources ==
    {[normalization_version |-> 0,
      agents |-> agents,
      gates |-> gates,
      steps |-> <<[step_key |-> <<115, 49>>, agent_name |-> <<112>>,
                   depends_on |-> <<>>, gate_points |-> <<>>],
                  [step_key |-> <<115, 50>>, agent_name |-> <<113>>,
                   depends_on |-> depends_on, gate_points |-> gate_points]>>] :
        agents \in {<<<<112>>, <<113>>>>, <<<<113>>, <<112>>>>},
        gates \in ListsUpTo(GateNames, MaxGates),
        depends_on \in {<<>>, <<<<115, 49>>>>, <<<<115, 49>>, <<115, 49>>>>},
        gate_points \in {<<>>, <<<<97>>>>, <<<<98>>, <<97>>>>, <<<<32, 98>>>>}}

InitNormalize ==
    /\ orch = <<>>
    /\ clock = 1
    /\ EmptyStore
    /\ outcome_schema = {}
    /\ outcome_migrations = {}
    /\ outcome_events = <<>>
    /\ outcome_rulesets = <<>>
    /\ memory_trust = <<>>
    /\ outcome_projection_state = None
    /\ replay_report = None
    /\ gate_decisions = None
    /\ append_call = None
    /\ last_sql = None
    /\ policy_call = None
    /\ \E source \in WorkflowSources :
          normalize_call = Some([source |-> source, first |-> None, second |-> None])

\* normalize_workflow_yaml(yaml) returns
Normalize ==
    /\ normalize_call # None
    /\ normalize_call[1].first = None
    /\ normalize_call' =
          Some([normalize_call[1] EXCEPT
                  !.first = Some(normalize_workflow_yaml(normalize_call[1].source))])
    /\ UNCHANGED <<orch, storeVars, outcomeVars, clock, last_sql, policy_call>>

\* the canonical form of an accepted workflow is normalized again
Renormalize ==
    /\ normalize_call # None
    /\ normalize_call[1].first \notin {None, Some(None)}
    /\ normalize_call[1].second = None
    /\ normalize_call' =
          Some([normalize_call[1] EXCEPT
                  !.second = Some(normalize_workflow_yaml(
                                      normalize_call[1].first[1][1].normalized_workflow))])
    /\ UNCHANGED <<orch, storeVars, outcomeVars, clock, last_sql, policy_call>>

NextNormalize == Normalize \/ Renormalize

SpecNormalize == InitNormalize /\ [][NextNormalize]_vars


(***************************************************************************)
(* Specification of the cycle detection: a workflow over every dependency  *)
(* graph of the step keys, self-dependencies included, given to            *)
(* validate_workflow                                                       *)
(***************************************************************************)
InitCycle ==
    /\ orch = <<>>
    /\ clock = 1
    /\ EmptyStore
    /\ outcome_schema = {}
    /\ outcome_migrations = {}
    /\ outcome_events = <<>>
    /\ outcome_rulesets = <<>>
    /\ memory_trust = <<>>
    /\ outcome_projection_state = None
    /\ replay_report = None
    /\ gate_decisions = None
    /\ append_call = None
    /\ last_sql = None
    /\ policy_call = None
    /\ \E deps \in [StepIdx -> SUBSET KeySet] :
          normalize_call = Some([source |-> MkWorkflow(deps, PlainKinds), first |-> None])

\* validate_workflow(&workflow): Ok, or the Err of detect_cycle with the keys
\* that remain
ValidateWorkflow ==
    /\ normalize_call # None
    /\ normalize_call[1].first = None
    /\ LET wf == normalize_call[1].source
           remaining == DetectCycleRemaining(
               [k \in KeySet |->
                   wf.steps[CHOOSE i \in StepIdx : wf.steps[i].step_key = k].depends_on])
       IN normalize_call' =
             Some([normalize_call[1] EXCEPT
                     !.first = Some([ok |-> validate_workflow(wf),
                                     cycle_keys |-> DOMAIN remaining])])
    /\ UNCHANGED <<orch, storeVars, outcomeVars, clock, last_sql, policy_call>>

NextCycle == ValidateWorkflow

SpecCycle == InitCycle /\ [][NextCycle]_vars

(***************************************************************************)
(* Properties of one execute_workflow call                                 *)
(***************************************************************************)
\* the steps reachable from idx through depends_on in at most n hops
RECURSIVE DepsWithin(_, _, _)
DepsWithin(wf, idx, n) ==
    IF n = 0 THEN {}
    ELSE LET direct == {KeyIndex(wf, d) : d \in {k \in wf.steps[idx].depends_on : KnownKey(wf, k)}}
         IN direct \cup UNION {DepsWithin(wf, j, n - 1) : j \in direct}

TransitiveDependencies(wf, idx) == DepsWithin(wf, idx, NumSteps)

\* the status the steps table records for step idx of call r
RecordedStatus(r, idx) ==
    IF StepIdOf(r, idx) \in DOMAIN steps THEN steps[StepIdOf(r, idx)].status ELSE "unrecorded"

\* C1: for every run, at every point during or after its execution, the
\* events of the run taken in ascending event_seq order form a hash chain:
\* the first has a null prev_event_hash and each later one's prev_event_hash
\* is the event_hash of the run's immediately preceding event.
C1_HashChain ==
    /\ \A i \in 1..(Len(trace_events) - 1) :
          trace_events[i].event_seq < trace_events[i + 1].event_seq
    /\ \A id \in {trace_events[i].run_id : i \in 1..Len(trace_events)} :
          LET ev == SelectSeq(trace_events, LAMBDA e : e.run_id = id) IN
          /\ ev[1].prev_event_hash = None
          /\ \A i \in 2..Len(ev) : ev[i].prev_event_hash = Some(ev[i - 1].event_hash)

\* a finished run that ended failed, with its whole event chain written
C1_Witness ==
    \E r \in DOMAIN orch :
        /\ orch[r].pc = "done"
        /\ runs[orch[r].run_id].status = "failed"
        /\ Len(trace_events) >= 10

\* C2: a step's transaction is under way, or has been carried out, only with
\* every step of its depends_on at status succeeded; no step is executed
\* while a dependency is pending, running, failed, rejected or skipped.
C2_DependenciesSucceeded ==
    \A r \in DOMAIN orch : \A idx \in StepIdx :
        LET o == orch[r] IN
        (\/ o.statuses[idx] \in {"running", "succeeded", "failed", "rejected"}
         \/ RecordedStatus(r, idx) \in {"running", "succeeded", "failed", "rejected"})
        => \A dep \in o.wf.steps[idx].depends_on :
              KnownKey(o.wf, dep) /\ o.statuses[KeyIndex(o.wf, dep)] = "succeeded"

\* a step with two dependencies is running
C2_Witness ==
    \E r \in DOMAIN orch : \E idx \in StepIdx :
        /\ orch[r].statuses[idx] = "running"
        /\ RecordedStatus(r, idx) = "running"
        /\ Cardinality(orch[r].wf.steps[idx].depends_on) = 2

\* C3: a step is recorded as skipped if and only if one of its transitive
\* dependencies ended failed, rejected or skipped: no step without such an
\* ancestor is ever recorded as skipped, and once the call on a valid
\* workflow has returned, with no failure of the context source, every step
\* with such an ancestor is recorded as skipped.
C3_SkippedIffBadAncestor ==
    \A r \in DOMAIN orch : \A idx \in StepIdx :
        LET o == orch[r]
            bad == \E j \in TransitiveDependencies(o.wf, idx) :
                       RecordedStatus(r, j) \in {"failed", "rejected", "skipped"}
        IN /\ RecordedStatus(r, idx) = "skipped" => bad
           /\ (/\ validate_workflow(o.wf)
               /\ o.context_failed = {}
               /\ o.pc \in {"done", "aborted"}
               /\ bad) => RecordedStatus(r, idx) = "skipped"

\* C4: when a run finishes, the status its row records is rejected if a step
\* ended rejected, otherwise failed if a step ended failed, otherwise
\* succeeded.
C4_TerminalStatusPriority ==
    \A r \in DOMAIN orch :
        LET o == orch[r]
            ended(st) == \E idx \in StepIdx : RecordedStatus(r, idx) = st
        IN o.pc \in {"ev_run_finished", "done"} =>
            /\ runs[o.run_id].ended_at # None
            /\ ended("rejected") => runs[o.run_id].status = "rejected"
            /\ (~ended("rejected") /\ ended("failed")) => runs[o.run_id].status = "failed"
            /\ (~ended("rejected") /\ ~ended("failed")) => runs[o.run_id].status = "succeeded"

\* a finished run with a rejected step and a failed step
C4_Witness ==
    \E r \in DOMAIN orch :
        /\ orch[r].pc = "done"
        /\ \E idx \in StepIdx : RecordedStatus(r, idx) = "rejected"
        /\ \E idx \in StepIdx : RecordedStatus(r, idx) = "failed"
        /\ runs[orch[r].run_id].status = "rejected"

\* C5: when the provider adapter returns an error for a step of a valid
\* workflow, an Error event is emitted for the step, the step is recorded
\* failed with error code provider_invocation_failed, and execute_workflow
\* does not abort (no failure of the context source being met).
C5_ProviderErrorFailsStep ==
    \A r \in DOMAIN orch : \A idx \in orch[r].adapter_failed :
        LET o == orch[r]
            step_id == StepIdOf(r, idx)
        IN /\ \E i \in 1..Len(trace_events) :
                 /\ trace_events[i].event_type = "error"
                 /\ trace_events[i].step_id = Some(step_id)
                 /\ trace_events[i].run_id = o.run_id
           /\ (o.pc # "update_status" \/ o.cur # idx) =>
                 /\ RecordedStatus(r, idx) = "failed"
                 /\ steps[step_id].error_json = Some("provider_invocation_failed")
           /\ (validate_workflow(o.wf) /\ o.context_failed = {}) => o.pc # "aborted"

\* C6 as the specification states it: a failure of the context source is
\* recorded as the step's error and the run continues without aborting.
C6_ContextFailureContinues ==
    \A r \in DOMAIN orch : \A idx \in orch[r].context_failed :
        /\ orch[r].pc # "aborted"
        /\ RecordedStatus(r, idx) = "failed"

\* C6: when the context source fails for a step, execute_workflow returns
\* that error: nothing is recorded for the step (no steps row, no event), no
\* other step is begun afterwards, and the run row stays running with no
\* ended_at.
C6_ContextFailureAborts ==
    \A r \in DOMAIN orch : \A idx \in orch[r].context_failed :
        LET o == orch[r] IN
        /\ o.pc = "aborted"
        /\ o.error = "failed to obtain context packages"
        /\ RecordedStatus(r, idx) = "unrecorded"
        /\ \A i \in 1..Len(trace_events) : trace_events[i].step_id # Some(StepIdOf(r, idx))
        /\ \A j \in StepIdx : RecordedStatus(r, j) # "running"
        /\ runs[o.run_id].status = "running"
        /\ runs[o.run_id].ended_at = None

\* the context source failed for a step while an independent step, with no
\* dependencies, was still pending
C6_Witness ==
    \E r \in DOMAIN orch : \E idx \in orch[r].context_failed : \E j \in StepIdx :
        /\ orch[r].pc = "aborted"
        /\ j # idx
        /\ orch[r].statuses[j] = "pending"
        /\ orch[r].wf.steps[j].depends_on = {}

\* C7: a workflow with a cross-cutting defect (an unknown dependency, an
\* unknown agent, or an unknown gate point) leaves no step-level event in the
\* run's trace, whichever step carries the defect.
C7_DefectAbortsBeforeStepEvents ==
    \A r \in DOMAIN orch :
        LET wf == orch[r].wf
            defective ==
                \E idx \in StepIdx :
                    \/ \E dep \in wf.steps[idx].depends_on : ~KnownKey(wf, dep)
                    \/ wf.steps[idx].agent_name \notin DOMAIN wf.agents
                    \/ \E g \in 1..Len(wf.steps[idx].gate_points) :
                          wf.steps[idx].gate_points[g] \notin DOMAIN wf.gates
        IN defective =>
              \A i \in 1..Len(trace_events) :
                  trace_events[i].run_id = orch[r].run_id => trace_events[i].step_id = None

(***************************************************************************)
(* Properties of successive execute_workflow calls                         *)
(***************************************************************************)
\* C8: ended_at and the terminal status of a run are set together and exactly
\* once: a run row is never removed, a row that carries a terminal status or
\* an ended_at keeps both in every later step of any call, and a row carries
\* an ended_at exactly when its status is terminal.
C8_TerminalStatusSetOnce ==
    [][\A id \in DOMAIN runs :
          /\ id \in DOMAIN runs'
          /\ (runs[id].status \in TerminalRunStatus \/ runs[id].ended_at # None) =>
                /\ runs'[id].status = runs[id].status
                /\ runs'[id].ended_at = runs[id].ended_at
          /\ runs'[id].status \in TerminalRunStatus <=> runs'[id].ended_at # None]_vars

\* two calls have finished their runs, the second later than the first
C8_Witness ==
    /\ \A r \in DOMAIN orch : orch[r].pc = "done"
    /\ \E a \in DOMAIN runs : \E b \in DOMAIN runs :
          /\ runs[a].status \in TerminalRunStatus
          /\ runs[b].status \in TerminalRunStatus
          /\ runs[a].status # runs[b].status
          /\ runs[a].ended_at # None
          /\ runs[b].ended_at # None
          /\ runs[a].ended_at[1] < runs[b].ended_at[1]

(***************************************************************************)
(* Properties of the storage layer                                         *)
(***************************************************************************)
\* C9: once a database is migrated, every UPDATE and every DELETE against a
\* row of trace_events, step_context_selected, step_context_excluded,
\* step_gate_decisions, provider_calls, proposed_memory_writes or
\* outcome_events is refused, and the rows the table holds stay as they are:
\* the table only grows at its end.
C9_AppendOnlyTablesRefuseRawWrites ==
    [][\A t \in TriggerGuardedTables \cup {"outcome_events"} :
          SqlMigrated(t) =>
              /\ Len(SqlRows(t)') >= Len(SqlRows(t))
              /\ SubSeq(SqlRows(t)', 1, Len(SqlRows(t))) = SqlRows(t)
              /\ (last_sql' # last_sql /\ last_sql'[1].table = t) => last_sql'[1].refused]_vars

\* a DELETE was refused on a migrated database that had been created before
\* the triggers existed and still holds its legacy row
C9_Witness ==
    /\ last_sql # None
    /\ last_sql[1].op = "DELETE"
    /\ last_sql[1].table = "step_gate_decisions"
    /\ last_sql[1].migrated
    /\ last_sql[1].refused
    /\ Len(step_gate_decisions) = 2
    /\ step_gate_decisions[1].decided_by = "legacy"

\* C10: once a context package row has been written for a step, no UPDATE
\* and no DELETE of a row of step_context_packages succeeds.
C10_ContextPackagesAppendOnly ==
    (/\ last_sql # None
     /\ last_sql[1].table = "step_context_packages"
     /\ last_sql[1].migrated) => last_sql[1].refused

\* the rows of step_gate_decisions that are trust decisions on a memory_ref
\* without a full identity
IdentityLackingRows(rows) ==
    {i \in 1..Len(rows) : LacksIdentity(rows[i])}

\* C11: a trust gate decision on a memory_ref that lacks memory_id, version
\* or memory_version_id is refused by append_gate_decision in every state of
\* the database, and a raw INSERT of one is refused by the schema of every
\* migrated database, one migrated from the legacy schema included; neither
\* writes a row, and the rows a legacy database already holds stay.
C11_IdentityRequiredAtBothLayers ==
    [][/\ (/\ last_sql' # last_sql
           /\ last_sql'[1].op \in {"append_gate_decision", "INSERT"}
           /\ last_sql'[1].lacks_identity
           /\ last_sql'[1].op = "INSERT" => last_sql'[1].migrated)
          => /\ last_sql'[1].refused
             /\ step_gate_decisions' = step_gate_decisions
       /\ SqlMigrated("step_gate_decisions") =>
             IdentityLackingRows(step_gate_decisions') = IdentityLackingRows(step_gate_decisions)
      ]_vars

\* a raw INSERT without identity was refused on a database migrated from the
\* legacy schema, whose table has no CHECK and still holds the legacy row
C11_Witness ==
    /\ last_sql # None
    /\ last_sql[1].op = "INSERT"
    /\ last_sql[1].lacks_identity
    /\ last_sql[1].migrated
    /\ last_sql[1].refused
    /\ Check("step_gate_decisions") \notin schema
    /\ IdentityLackingRows(step_gate_decisions) = {1}

\* C12 as stated: in every state of a migrated trace database no trust gate
\* decision on a memory_ref has a null memory_id, version or
\* memory_version_id.
C12_NoTrustDecisionWithoutIdentity ==
    TRACE_SCHEMA_VERSION \in migrations =>
        \A i \in 1..Len(step_gate_decisions) :
            LET d == step_gate_decisions[i] IN
            (d.gate_kind = "trust" /\ d.subject_type = "memory_ref") =>
                (d.memory_id # None /\ d.version # None /\ d.memory_version_id # None)

\* C12, amended: in every state of the trace database, whatever was migrated,
\* written by runs or offered for insertion, the only trust gate decision on a
\* memory_ref with a null memory_id, version or memory_version_id is the row
\* a legacy database held before its migration.
C12_OnlyLegacyRowsLackIdentity ==
    \A i \in 1..Len(step_gate_decisions) :
        LET d == step_gate_decisions[i] IN
        (/\ d.gate_kind = "trust"
         /\ d.subject_type = "memory_ref"
         /\ (d.memory_id = None \/ d.version = None \/ d.memory_version_id = None))
        => /\ i = 1
           /\ d = [LegacyGateDecision EXCEPT !.decided_at = 1]
           /\ Check("step_gate_decisions") \notin schema

\* a migrated legacy database holds its legacy row, then a trust decision
\* written for a step of a run, then an inserted one, both with full identity
C12_Witness ==
    /\ TRACE_SCHEMA_VERSION \in migrations
    /\ Len(step_gate_decisions) = 3
    /\ step_gate_decisions[1].memory_version_id = None
    /\ \A i \in {2, 3} :
          /\ step_gate_decisions[i].gate_kind = "trust"
          /\ step_gate_decisions[i].memory_version_id # None
    /\ step_gate_decisions[2].run_id \in DOMAIN runs
    /\ step_gate_decisions[3].decided_by = "new"

\* the snapshot fields that are not last-event audit metadata
SnapshotFields ==
    {"memory_id", "version", "confidence_raw", "confidence_effective", "baseline_confidence",
     "trust_status", "contradiction_cap_active", "cap_value", "manual_override_active",
     "wins_last5", "failures_last5", "last_scored_at"}

\* C13 as stated: once a replay from a seq S has returned (and no event was
\* appended since), memory_trust holds, for every key that has events, the
\* snapshot a full replay of the stream projects, equal on every field other
\* than the last-event audit metadata, and holds no other snapshot.
C13_IncrementalReplayEqualsFullReplay ==
    (replay_report # None /\ replay_report[1].from_event_seq # None) =>
        /\ DOMAIN memory_trust = keys_with_events_from(0)
        /\ \A key \in DOMAIN memory_trust : \A f \in SnapshotFields :
              memory_trust[key][f]
                 = project_memory_trust(list_events_for_key(key), outcome_rulesets).trust[1][f]

\* C13, amended: once a replay from a seq S has returned (and no event was
\* appended since), every key that has an event at or after S has the
\* snapshot a full replay of the stream projects, last_event_seq included;
\* and the replay leaves every other key as it was, with the snapshot it had
\* or with none.
C13_IncrementalReplayProjectsTouchedKeys ==
    /\ [](replay_report # None /\ replay_report[1].from_event_seq # None =>
            \A i \in 1..Len(outcome_events) :
                outcome_events[i].event_seq >= replay_report[1].from_event_seq[1] =>
                    LET key == KeyOf(outcome_events[i]) IN
                    /\ key \in DOMAIN memory_trust
                    /\ \A f \in SnapshotFields \cup {"last_event_seq"} :
                          memory_trust[key][f]
                             = project_memory_trust(list_events_for_key(key),
                                                    outcome_rulesets).trust[1][f])
    /\ [][replay_report' # None /\ replay_report'[1].from_event_seq # None =>
            \A key \in MemoryKeys :
                (\A i \in 1..Len(outcome_events) :
                    KeyOf(outcome_events[i]) = key =>
                        outcome_events[i].event_seq < replay_report'[1].from_event_seq[1])
                => /\ (key \in DOMAIN memory_trust') = (key \in DOMAIN memory_trust)
                   /\ key \in DOMAIN memory_trust => memory_trust'[key] = memory_trust[key]]_vars

\* a replay from seq 2 has projected the second key and left the first key
\* with the snapshot of its only event
C13_Witness ==
    /\ replay_report # None
    /\ replay_report[1].from_event_seq = Some(2)
    /\ DOMAIN memory_trust = MemoryKeys
    /\ memory_trust[<<1, 1>>].last_event_seq = 1
    /\ memory_trust[<<1, 2>>].last_event_seq = latest_event_seq
    /\ latest_event_seq >= 3

\* C14: once a full replay has returned and no event was appended since,
\* projector check reports healthy, with a lag of zero, no stale key, and as
\* many tracked keys as snapshot rows.
C14_HealthyAfterFullReplay ==
    (replay_report # None /\ replay_report[1].from_event_seq = None) =>
        /\ projector_check.healthy
        /\ projector_check.lag_events = 0
        /\ projector_check.stale_key_sample = {}
        /\ projector_check.tracked_keys = projector_check.trust_rows

\* a full replay has projected the events of both keys
C14_Witness ==
    /\ replay_report # None
    /\ replay_report[1].from_event_seq = None
    /\ replay_report[1].projected_keys = 2
    /\ replay_report[1].processed_events >= 3
    /\ DOMAIN memory_trust = MemoryKeys

\* the events of the one key of the projection specification up to its last
\* manual_retire, none if it has none
LastRetire ==
    LET retires == {i \in 1..Len(outcome_events) :
                       outcome_events[i].event_type = "manual_retire"}
    IN IF retires = {} THEN 0 ELSE CHOOSE i \in retires : \A j \in retires : j <= i

\* C15 as stated: once a manual_retire has been projected for a key, the
\* projected status is retired after every later event of any type, as long
\* as no manual_promote followed.
C15_RetiredUntilPromote ==
    (replay_report # None /\ LastRetire > 0
       /\ \A j \in (LastRetire + 1)..Len(outcome_events) :
              outcome_events[j].event_type # "manual_promote")
    => memory_trust[<<1, 1>>].trust_status = "retired"

\* C15, amended: the projected status of a key is retired exactly when a
\* manual_retire has been projected for it and neither a manual_promote nor
\* an inherited event followed; every other later event leaves it retired.
C15_RetiredUntilPromoteOrInherited ==
    (replay_report # None /\ outcome_events # <<>>) =>
        ((memory_trust[<<1, 1>>].trust_status = "retired")
            <=> (/\ LastRetire > 0
                 /\ \A j \in (LastRetire + 1)..Len(outcome_events) :
                       outcome_events[j].event_type \notin {"manual_promote", "inherited"}))

\* a retired key stays retired over three successes that fill its window
C15_Witness ==
    /\ replay_report # None
    /\ Len(outcome_events) = 4
    /\ outcome_events[1].event_type = "manual_retire"
    /\ \A j \in 2..4 : outcome_events[j].event_type = "success"
    /\ memory_trust[<<1, 1>>].trust_status = "retired"
    /\ memory_trust[<<1, 1>>].wins_last5 >= 2

\* C16: after any event is projected for a key that is not retired, its status
\* is validated exactly when the rolling window holds at least
\* validated_wins_required successes of the event's ruleset and no failure and
\* the contradiction cap is inactive; otherwise it is active.
C16_ValidatedIffWindowAndNoCap ==
    (replay_report # None /\ outcome_events # <<>>) =>
        LET trust == memory_trust[<<1, 1>>]
            ruleset == outcome_rulesets[trust.last_ruleset_version]
        IN trust.trust_status # "retired" =>
              /\ trust.trust_status \in {"validated", "active"}
              /\ (trust.trust_status = "validated")
                    <=> (/\ trust.wins_last5 >= ruleset.validated_wins_required
                         /\ trust.failures_last5 = 0
                         /\ ~trust.contradiction_cap_active)

\* a key validated by three successes of ruleset 1 after an earlier event
C16_Witness ==
    /\ replay_report # None
    /\ Len(outcome_events) = 4
    /\ outcome_events[4].ruleset_version = 1
    /\ memory_trust[<<1, 1>>].trust_status = "validated"
    /\ memory_trust[<<1, 1>>].wins_last5 = 3
    /\ memory_trust[<<1, 1>>].failures_last5 = 0

\* C17: after any sequence of events is projected, a snapshot whose
\* contradiction cap is active and whose manual override is not has a
\* confidence_effective of at most the cap value, the contradiction_cap of
\* the ruleset.
C17_EffectiveConfidenceCapped ==
    (replay_report # None /\ outcome_events # <<>>) =>
        LET trust == memory_trust[<<1, 1>>] IN
        (trust.contradiction_cap_active /\ ~trust.manual_override_active) =>
            /\ trust.confidence_effective <= trust.cap_value
            /\ trust.cap_value = outcome_rulesets[1].contradiction_cap

\* the cap binds: a raw confidence above the cap, an effective one at the cap
C17_Witness ==
    /\ replay_report # None
    /\ outcome_events # <<>>
    /\ memory_trust[<<1, 1>>].contradiction_cap_active
    /\ ~memory_trust[<<1, 1>>].manual_override_active
    /\ memory_trust[<<1, 1>>].confidence_raw > memory_trust[<<1, 1>>].cap_value
    /\ memory_trust[<<1, 1>>].confidence_effective = memory_trust[<<1, 1>>].cap_value

\* C18: a safe-mode gate decision on a snapshot includes the memory exactly
\* when the status is validated, the memory is not capped and
\* confidence_effective is at least safe_min_confidence of the ruleset.
C18_SafeGateIncludesIffValidatedUncappedConfident ==
    (gate_decisions # None /\ gate_decisions[1].mode = "safe"
        /\ <<1, 1>> \in DOMAIN memory_trust) =>
        LET d == gate_decisions[1].decisions[<<1, 1>>]
            given == apply_as_of_decay(memory_trust[<<1, 1>>], gate_decisions[1].decay_term)
        IN /\ d.trust_status = given.trust_status
           /\ d.confidence_effective = given.confidence_effective
           /\ d.capped = (given.contradiction_cap_active /\ ~given.manual_override_active)
           /\ d.include
                 <=> (/\ d.trust_status = "validated"
                      /\ ~d.capped
                      /\ d.confidence_effective
                            >= outcome_rulesets[memory_trust[<<1, 1>>].last_ruleset_version]
                                  .safe_min_confidence)

\* the safe-mode gate includes a validated memory whose decayed confidence
\* still reaches the threshold
C18_Witness ==
    /\ gate_decisions # None
    /\ gate_decisions[1].mode = "safe"
    /\ gate_decisions[1].decay_term < One
    /\ <<1, 1>> \in DOMAIN memory_trust
    /\ gate_decisions[1].decisions[<<1, 1>>].include
    /\ gate_decisions[1].decisions[<<1, 1>>].confidence_effective
          < memory_trust[<<1, 1>>].confidence_effective

\* C19: after apply_context_permissions, every selected item that remains has
\* a record type of the allowed set when that set is not empty, and the
\* selected items that remain, counted over the packages in order, number at
\* most max_context_items when a maximum is set.
C19_PrunedSelectionWithinPermissions ==
    (policy_call # None /\ policy_call[1].result # None) =>
        LET permissions == policy_call[1].permissions
            packages == policy_call[1].result[1].packages
            selected == Concat([i \in 1..Len(packages) |-> packages[i].selected_items])
        IN /\ permissions.allowed_record_types # {} =>
                 \A i \in 1..Len(selected) :
                     selected[i].record_type \in permissions.allowed_record_types
           /\ permissions.max_context_items # None =>
                 Len(selected) <= permissions.max_context_items[1]

\* a call that pruned an item for its type and another for the maximum, and
\* kept as many selected items as the maximum allows
C19_Witness ==
    /\ policy_call # None
    /\ policy_call[1].result # None
    /\ policy_call[1].permissions.max_context_items = Some(2)
    /\ LET result == policy_call[1].result[1] IN
       /\ Len(Concat([i \in 1..Len(result.packages) |->
                         result.packages[i].selected_items])) = 2
       /\ \E i, j \in 1..Len(result.pruned_references) :
             /\ result.pruned_references[i].reason = "record_type_not_allowed"
             /\ result.pruned_references[j].reason = "max_context_items_exceeded"

\* C20: apply_context_permissions conserves the items: the items that remain,
\* selected or excluded, and the PrunedReference entries number together as
\* many as the items given; no item remains and is reported pruned; and every
\* item given remains or is reported pruned.
C20_PruningConservesItems ==
    (policy_call # None /\ policy_call[1].result # None) =>
        LET given == policy_call[1].packages
            result == policy_call[1].result[1]
            items(packages) ==
                Concat([i \in 1..Len(packages) |->
                           [j \in 1..Len(packages[i].selected_items) |->
                               <<packages[i].package_slot,
                                 packages[i].selected_items[j].memory_version_id>>]
                           \o [j \in 1..Len(packages[i].excluded_items) |->
                                  <<packages[i].package_slot,
                                    packages[i].excluded_items[j].memory_version_id>>]])
            range(seq) == {seq[i] : i \in 1..Len(seq)}
            pruned == {<<result.pruned_references[i].package_slot,
                         result.pruned_references[i].memory_version_id>> :
                          i \in 1..Len(result.pruned_references)}
        IN /\ Len(items(result.packages)) + Len(result.pruned_references)
                 = Len(items(given))
           /\ range(items(result.packages)) \cap pruned = {}
           /\ range(items(given)) = range(items(result.packages)) \cup pruned

\* a call that kept some items and reported others pruned, an excluded one
\* among them
C20_Witness ==
    /\ policy_call # None
    /\ policy_call[1].result # None
    /\ LET result == policy_call[1].result[1] IN
       /\ \E i \in 1..Len(result.packages) : result.packages[i].selected_items # <<>>
       /\ \E i \in 1..Len(result.packages) : result.packages[i].excluded_items # <<>>
       /\ \E i, j \in 1..Len(result.pruned_references) :
             /\ result.pruned_references[i].reason = "excluded_record_type_not_allowed"
             /\ result.pruned_references[j].reason = "max_context_items_exceeded"

(***************************************************************************)
(* Ordering of store writes within one execute_workflow call               *)
(***************************************************************************)
\* the positions of the step transaction at which the next store call is an
\* emit_event that references the current step
StepEventPositions ==
    {"ev_ready", "ev_input", "ev_trust", "ev_pruned", "ev_prune_warning",
     "ev_prune_ignored", "ev_started", "ev_gate", "ev_provider", "ev_finished"}

\* C21: for every step of a run, executed or skipped, the steps row is
\* inserted before any trace event that references its step_id is appended:
\* every stored event that names a step finds the row of that step, written
\* at an earlier time, and whenever the call is about to emit an event for a
\* step the row of that step is already stored.
C21_StepInsertedBeforeEvents ==
    /\ \A i \in 1..Len(trace_events) :
          trace_events[i].step_id # None =>
              /\ trace_events[i].step_id[1] \in DOMAIN steps
              /\ steps[trace_events[i].step_id[1]].started_at[1] < trace_events[i].recorded_at
    /\ \A r \in DOMAIN orch :
          /\ orch[r].pc \in StepEventPositions => StepIdOf(r, orch[r].cur) \in DOMAIN steps
          /\ orch[r].pc = "skip_event" => StepIdOf(r, Head(orch[r].blocked)) \in DOMAIN steps

\* the trace holds the StepFinished of a skipped step and the StepReady of an
\* executed step
C21_Witness ==
    /\ \E i \in 1..Len(trace_events) :
          /\ trace_events[i].event_type = "step_finished"
          /\ trace_events[i].actor_id = "scheduler"
          /\ steps[trace_events[i].step_id[1]].status = "skipped"
    /\ \E i \in 1..Len(trace_events) :
          /\ trace_events[i].event_type = "step_ready"
          /\ trace_events[i].step_id[1] \in DOMAIN steps

\* the rows of step_gate_decisions of one step, gate kind and decision that
\* were decided before the time at
GateRowsBefore(step_id, kind, decision, at) ==
    {j \in 1..Len(step_gate_decisions) :
        /\ step_gate_decisions[j].step_id = step_id
        /\ step_gate_decisions[j].gate_kind = kind
        /\ step_gate_decisions[j].decision = decision
        /\ step_gate_decisions[j].decided_at < at}

\* C22: every GateEvaluated event is appended only after the gate-decision
\* rows it reports have been persisted: the trust summary of a step finds as
\* many approved and rejected trust rows of the step, written earlier, as it
\* counts included and excluded attachments, and the event of a human gate
\* finds the earlier row of that gate with the decision it reports.
C22_GateRowsBeforeGateEvaluated ==
    \A i \in 1..Len(trace_events) :
        LET e == trace_events[i] IN
        e.event_type = "gate_evaluated" =>
            IF e.actor_id = "trust_gate"
            THEN /\ Cardinality(GateRowsBefore(e.step_id[1], "trust", "approved", e.recorded_at))
                        = e.payload_json[1]
                 /\ Cardinality(GateRowsBefore(e.step_id[1], "trust", "rejected", e.recorded_at))
                        = e.payload_json[2]
            ELSE \E r \in DOMAIN orch : \E idx \in StepIdx :
                    /\ StepIdOf(r, idx) = e.step_id[1]
                    /\ \E j \in GateRowsBefore(e.step_id[1], "human",
                                               IF e.payload_json[2] = 1 THEN "approved"
                                               ELSE "rejected", e.recorded_at) :
                           step_gate_decisions[j].gate_name =
                               orch[r].wf.steps[idx].gate_points[e.payload_json[1]]

\* the trace holds a trust summary that counts an excluded attachment and the
\* event of a rejected human gate
C22_Witness ==
    /\ \E i \in 1..Len(trace_events) :
          /\ trace_events[i].event_type = "gate_evaluated"
          /\ trace_events[i].actor_id = "trust_gate"
          /\ trace_events[i].payload_json[1] > 0
          /\ trace_events[i].payload_json[2] > 0
    /\ \E i \in 1..Len(trace_events) :
          /\ trace_events[i].event_type = "gate_evaluated"
          /\ trace_events[i].actor_id = "human_gate"
          /\ trace_events[i].payload_json[2] = 0

(***************************************************************************)
(* Human gates                                                             *)
(***************************************************************************)
\* a required human gate of step idx of call r has a rejected decision row
RequiredGateRejected(r, idx) ==
    \E j \in 1..Len(step_gate_decisions) :
        LET d == step_gate_decisions[j] IN
        /\ d.step_id = StepIdOf(r, idx)
        /\ d.gate_kind = "human"
        /\ d.decision = "rejected"
        /\ d.gate_name \in DOMAIN orch[r].wf.gates
        /\ orch[r].wf.gates[d.gate_name].required

\* C23: when a required human gate of a step is rejected, the provider is not
\* invoked for the step (it has no provider_calls row and no ProviderCalled
\* event), the result the step is closed with is rejected, and once the step
\* transaction is over, and when the call has returned, the step is recorded
\* with status rejected.
C23_RequiredRejectionSkipsProvider ==
    \A r \in DOMAIN orch : \A idx \in StepIdx :
        LET o == orch[r] IN
        RequiredGateRejected(r, idx) =>
            /\ \A j \in 1..Len(provider_calls) : provider_calls[j].step_id # StepIdOf(r, idx)
            /\ \A i \in 1..Len(trace_events) :
                  trace_events[i].step_id = Some(StepIdOf(r, idx))
                      => trace_events[i].event_type \notin {"provider_called", "error"}
            /\ ~(o.cur = idx /\ o.pc \in {"provider", "ev_provider"})
            /\ (o.cur = idx /\ o.pc \in {"update_status", "ev_finished"})
                  => o.result = Some(RejectedResult)
            /\ (o.cur # idx \/ o.pc \in {"ev_finished", "done", "aborted"})
                  => /\ RecordedStatus(r, idx) = "rejected"
                     /\ steps[StepIdOf(r, idx)].error_json = None

\* a call has returned after a step whose optional gate was approved and
\* whose required gate was rejected
C23_Witness ==
    \E r \in DOMAIN orch : \E idx \in StepIdx :
        /\ orch[r].pc = "done"
        /\ RequiredGateRejected(r, idx)
        /\ RecordedStatus(r, idx) = "rejected"
        /\ \E j \in 1..Len(step_gate_decisions) :
              /\ step_gate_decisions[j].step_id = StepIdOf(r, idx)
              /\ step_gate_decisions[j].gate_kind = "human"
              /\ step_gate_decisions[j].decision = "approved"

(***************************************************************************)
(* Properties of the write rules of the outcome store                      *)
(***************************************************************************)
\* the write rules an append_event call breaks, one by one
WriteRuleViolated(call) ==
    LET input == call.input IN
    \/ input.ruleset_version < 1
    \/ call.key[2] < 1
    \/ input.writer \in {"", " "}
    \/ input.justification \in {"", " "}
    \/ input.occurred_at_offset # 0
    \/ input.escalated /\ input.severity = None
    \/ input.event_type \in {"manual_set_confidence", "inherited"} /\ input.manual_confidence = None
    \/ input.manual_confidence # None
          /\ (input.manual_confidence[1] < 0 \/ input.manual_confidence[1] > One)
    \/ input.ruleset_version \notin DOMAIN outcome_rulesets

\* C24: an append_event call whose input breaks a write rule (ruleset_version
\* or version below 1, empty writer or justification, occurred_at not UTC,
\* escalated without severity, manual confidence missing where required or
\* outside [0, 1], ruleset version not registered) returns an error and
\* changes nothing: no event row is added, and the snapshots, the rulesets
\* and the projector cursor stay as they are.
C24_InvalidAppendChangesNothing ==
    /\ [](append_call # None /\ WriteRuleViolated(append_call[1])
            => append_call[1].result # "ok")
    /\ [][(append_call' # append_call /\ WriteRuleViolated(append_call'[1]))
            => UNCHANGED <<outcome_schema, outcome_migrations, outcome_events, outcome_rulesets,
                           memory_trust, outcome_projection_state>>]_vars

\* an append that names an unregistered ruleset was refused by a store that
\* holds events, a snapshot and an advanced cursor
C24_Witness ==
    /\ append_call # None
    /\ append_call[1].input.ruleset_version = 2
    /\ append_call[1].key = <<1, 1>>
    /\ append_call[1].result = "missing ruleset_version"
    /\ Len(outcome_events) >= 2
    /\ <<1, 1>> \in DOMAIN memory_trust
    /\ outcome_projection_state = Some(2)

(***************************************************************************)
(* Properties of the workflow snapshots                                    *)
(***************************************************************************)
\* C25: a workflow snapshot is immutable and inserted idempotently: once a
\* snapshot is stored under a workflow hash, a later upsert_workflow_snapshot
\* with the same hash leaves every stored field of the snapshot unchanged.
C25_SnapshotImmutable ==
    [][\A s \in workflow_snapshots : s \in workflow_snapshots']_vars

(***************************************************************************)
(* Properties of the workflow normalization                                *)
(***************************************************************************)
\* C26: workflow normalization is a fixed point on its own output:
\* normalizing an already normalized workflow again is accepted and returns
\* the identical canonical form with the identical normalized_hash.
C26_NormalizationFixedPoint ==
    (normalize_call # None /\ normalize_call[1].second # None) =>
        LET first == normalize_call[1].first[1]
            second == normalize_call[1].second[1]
        IN /\ second # None
           /\ second[1].normalized_workflow = first[1].normalized_workflow
           /\ second[1].normalized_json = first[1].normalized_json
           /\ second[1].normalized_hash = first[1].normalized_hash

(***************************************************************************)
(* Properties of the scheduler loop                                        *)
(***************************************************************************)
\* C27: for a workflow whose dependency graph is acyclic and whose
\* references all resolve, whatever steps fail or are rejected,
\* execute_workflow stops with every step in a terminal status and the run in
\* a terminal status: the error "no ready steps found while pending steps
\* remain" is returned only for a workflow with a dependency cycle, a call
\* that has returned Ok has left no step pending or running, and its run row
\* carries a terminal status.
C27_StopsWithEveryStepTerminal ==
    \A r \in DOMAIN orch :
        LET o == orch[r] IN
        /\ (o.pc = "aborted" /\ o.error = "no ready steps found while pending steps remain")
              => ~detect_cycle(o.wf)
        /\ o.pc = "done" =>
              /\ \A idx \in StepIdx :
                    RecordedStatus(r, idx) \in {"succeeded", "failed", "rejected", "skipped"}
              /\ runs[o.run_id].status \in TerminalRunStatus

(***************************************************************************)
(* Properties of the events of one step                                    *)
(***************************************************************************)
\* the place of an event in the transaction of an executed step
EventStage(e) ==
    CASE e.event_type = "step_ready" -> 1
      [] e.event_type = "step_input_prepared" -> 2
      [] e.event_type = "gate_evaluated" /\ e.actor_id = "trust_gate" -> 3
      [] e.event_type = "step_permission_pruned" -> 4
      [] e.event_type = "warning" -> 5
      [] e.event_type = "step_started" -> 6
      [] e.event_type = "gate_evaluated" /\ e.actor_id # "trust_gate" -> 7
      [] e.event_type \in {"provider_called", "error"} -> 8
      [] e.event_type = "step_finished" -> 9
      [] OTHER -> 0

\* the events that reference a step, in event_seq order
EventsOfStep(step_id) == SelectSeq(trace_events, LAMBDA e : e.step_id = Some(step_id))

\* C28: the events of an executed step appear in the trace in the order
\* StepReady, StepInputPrepared, the GateEvaluated of the trust summary (when
\* the step has trust attachments), StepPermissionPruned followed at once by
\* Warning (when something was pruned), StepStarted, the events of the human
\* gates and of the provider outcome, and StepFinished, which is the last
\* event of the step.
C28_StepEventOrder ==
    \A step_id \in DOMAIN steps :
        LET ev == EventsOfStep(step_id)
            stage == [i \in 1..Len(ev) |-> EventStage(ev[i])]
            has(n) == \E i \in 1..Len(ev) : stage[i] = n
        IN steps[step_id].status # "skipped" =>
            /\ \A i \in 1..Len(ev) : stage[i] # 0
            /\ ev # <<>> => stage[1] = 1
            /\ Len(ev) >= 2 => stage[2] = 2
            /\ \A i \in 1..(Len(ev) - 1) :
                  /\ stage[i] <= stage[i + 1]
                  /\ stage[i] = stage[i + 1] => stage[i] \in {5, 7}
                  /\ stage[i] = 4 => stage[i + 1] = 5
                  /\ stage[i + 1] = 5 => stage[i] \in {4, 5}
                  /\ stage[i] # 9
            /\ has(7) \/ has(8) \/ has(9) => has(6)
            /\ (has(6) /\ GateRowsBefore(step_id, "trust", "approved", MaxClock + 1)
                             \cup GateRowsBefore(step_id, "trust", "rejected", MaxClock + 1) # {})
                  => has(3)
            /\ GateRowsBefore(step_id, "policy", "pruned", MaxClock + 1) # {} => has(4) /\ has(5)
            /\ steps[step_id].status \in {"succeeded", "failed", "rejected"}
                  => \/ stage[Len(ev)] = 9
                     \/ \E r \in DOMAIN orch :
                           orch[r].pc = "ev_finished" /\ StepIdOf(r, orch[r].cur) = step_id

\* a step has finished with every kind of event in its trace: the trust
\* summary, the prune events, a human gate and the provider call
C28_Witness ==
    \E step_id \in DOMAIN steps :
        LET ev == EventsOfStep(step_id) IN
        /\ ev # <<>>
        /\ EventStage(ev[Len(ev)]) = 9
        /\ \A n \in 1..8 : \E i \in 1..Len(ev) : EventStage(ev[i]) = n

\* C29: within a step transaction, the gate-decision rows of the step's trust
\* attachments and, when anything was pruned, the aggregate policy row with
\* decision pruned are persisted before the StepReady event of the step is
\* emitted, and so before its StepPermissionPruned event.
C29_GateRowsBeforeStepReady ==
    \A r \in DOMAIN orch : \A i \in 1..Len(trace_events) :
        LET o == orch[r]
            e == trace_events[i]
            trust_rows == GateRowsBefore(e.step_id[1], "trust", "approved", e.recorded_at)
                            \cup GateRowsBefore(e.step_id[1], "trust", "rejected", e.recorded_at)
        IN (o.cur # 0 /\ e.step_id = Some(StepIdOf(r, o.cur))) =>
            /\ e.event_type = "step_ready" =>
                  /\ Cardinality(trust_rows) = Len(o.attachments)
                  /\ o.pruned_references # <<>> =>
                        GateRowsBefore(e.step_id[1], "policy", "pruned", e.recorded_at) # {}
            /\ e.event_type = "step_permission_pruned" =>
                  GateRowsBefore(e.step_id[1], "policy", "pruned", e.recorded_at) # {}

\* the trust attachment of an item, looked up by its memory version
AttachmentsOf(attachments, item) ==
    {attachments[i].include : i \in {j \in 1..Len(attachments) :
        attachments[j].memory_version_id = item.memory_version_id}}

\* C30: the context packages injected into a step's request contain exactly
\* the post-policy selected items whose trust attachment has include=true:
\* at the provider call no injected item has an attachment with include=false,
\* and no post-policy item with include=true is missing from its package.
C30_InjectedItemsAreTrusted ==
    \A r \in DOMAIN orch :
        LET o == orch[r] IN
        o.pc = "provider" =>
            LET step == o.wf.steps[o.cur]
                perms == o.wf.agents[step.agent_name].permissions
                policy == apply_context_permissions(PackagesForStep(step), perms).packages
            IN /\ Len(o.packages) = Len(policy)
               /\ \A i \in 1..Len(policy) :
                     /\ o.packages[i].package_slot = policy[i].package_slot
                     /\ o.packages[i].selected_items =
                           SelectSeq(policy[i].selected_items,
                                     LAMBDA item : AttachmentsOf(o.attachments, item) = {TRUE})
                     /\ \A k \in 1..Len(policy[i].selected_items) :
                           AttachmentsOf(o.attachments, policy[i].selected_items[k]) # {}

\* a provider is about to be called with a package from which the trust
\* filter dropped one selected item and kept another
C30_Witness ==
    \E r \in DOMAIN orch :
        LET o == orch[r] IN
        /\ o.pc = "provider"
        /\ \E i \in 1..Len(o.packages) :
              /\ o.packages[i].selected_items # <<>>
              /\ \E k \in 1..Len(o.attachments) :
                    /\ ~o.attachments[k].include
                    /\ \A j \in 1..Len(o.packages) : \A n \in 1..Len(o.packages[j].selected_items) :
                          o.packages[j].selected_items[n].memory_version_id
                            # o.attachments[k].memory_version_id

\* the whole event stream of a key, from its first event, in event_seq order
WholeStream(key) == SelectSeq(outcome_events, LAMBDA event : KeyOf(event) = key)

\* C31: once an incremental replay from seq S has returned (and no event was
\* appended since), every key that has any event at or after S holds the
\* snapshot that the projection of its entire event stream, from its first
\* event, yields; the snapshot stored before the replay plays no part.
C31_IncrementalReplayProjectsWholeStream ==
    (replay_report # None /\ replay_report[1].from_event_seq # None) =>
        \A key \in keys_with_events_from(replay_report[1].from_event_seq[1]) :
            LET whole == WholeStream(key) IN
            /\ key \in DOMAIN memory_trust
            /\ memory_trust[key] =
                  project_memory_trust(whole, outcome_rulesets).trust[1]
                     @@ [last_ruleset_version |-> whole[Len(whole)].ruleset_version]

\* a replay from seq 2 has rewritten the snapshot of a key that has one event
\* before seq 2 and two after it, on top of the snapshot of a full replay
C31_Witness ==
    /\ replay_report # None
    /\ replay_report[1].from_event_seq = Some(2)
    /\ <<1, 1>> \in DOMAIN memory_trust
    /\ Len(WholeStream(<<1, 1>>)) = 3
    /\ WholeStream(<<1, 1>>)[1].event_seq = 1
    /\ memory_trust[<<1, 1>>].wins_last5 = 3
    /\ outcome_projection_state = Some(latest_event_seq)

\* C32: projector check treats orphan snapshots as warnings only: a store in
\* which every event is projected (no lag, no stale key, a snapshot for every
\* key that has events) and whose sole anomaly is one or more memory_trust
\* rows without events is reported healthy.
C32_OrphanSnapshotsAreWarnings ==
    (/\ projector_check.trust_rows_without_events > 0
     /\ projector_check.lag_events = 0
     /\ projector_check.stale_key_sample = {}
     /\ keys_with_events_from(0) \subseteq DOMAIN memory_trust)
        => projector_check.healthy

TerminalStepStatus == {"succeeded", "failed", "rejected", "skipped"}

StepFinishedEvents(step_id) ==
    {i \in 1..Len(trace_events) :
        trace_events[i].event_type = "step_finished" /\ trace_events[i].step_id = Some(step_id)}

\* C33: within a run, the record of a step is inserted at most once (a stored
\* row is never removed and never written anew: its identity, started_at and
\* input_hash stay), its status is updated to a terminal status at most once
\* (a row with a terminal status never changes again), and at most one
\* StepFinished event is emitted for it.
C33_StepTransitionsOnce ==
    /\ [](\A step_id \in DOMAIN steps : Cardinality(StepFinishedEvents(step_id)) <= 1)
    /\ [][\A step_id \in DOMAIN steps :
            /\ step_id \in DOMAIN steps'
            /\ steps'[step_id].run_id = steps[step_id].run_id
            /\ steps'[step_id].step_index = steps[step_id].step_index
            /\ steps'[step_id].started_at = steps[step_id].started_at
            /\ steps'[step_id].input_hash = steps[step_id].input_hash
            /\ steps[step_id].status \in TerminalStepStatus =>
                  steps'[step_id] = steps[step_id]]_vars

\* a run has finished with one step succeeded, one failed and one skipped,
\* each with its StepFinished event, after a second scheduler pass
C33_Witness ==
    \E r \in DOMAIN orch :
        /\ orch[r].pc = "done"
        /\ \A status \in {"succeeded", "failed", "skipped"} :
              \E step_id \in DOMAIN steps :
                  /\ steps[step_id].status = status
                  /\ Cardinality(StepFinishedEvents(step_id)) = 1

\* the keys a step reaches through depends_on in one to n hops
RECURSIVE DependsWithin(_, _, _)
DependsWithin(wf, key, n) ==
    IF n = 0 THEN {}
    ELSE LET direct == wf.steps[KeyIndex(wf, key)].depends_on
         IN direct \cup UNION {DependsWithin(wf, d, n - 1) : d \in direct}

OnCycle(wf, key) == key \in DependsWithin(wf, key, NumSteps)

\* C34: cycle detection rejects a workflow exactly when its depends_on graph
\* contains a cycle, a self-dependency included, and the keys it reports are
\* exactly the steps that lie on a cycle or depend transitively on one; every
\* acyclic graph is accepted.
C34_CycleDetectionExact ==
    (normalize_call # None /\ normalize_call[1].first # None) =>
        LET wf == normalize_call[1].source
            result == normalize_call[1].first[1]
            cyclic == {k \in KeySet : OnCycle(wf, k)}
        IN /\ result.ok = (cyclic = {})
           /\ result.cycle_keys =
                 {k \in KeySet : k \in cyclic \/ DependsWithin(wf, k, NumSteps) \cap cyclic # {}}

\* a workflow in which one step depends on itself and another depends on it
\* was rejected with both keys reported and the third step left out
C34_Witness ==
    /\ normalize_call # None
    /\ normalize_call[1].first # None
    /\ normalize_call[1].source.steps[1].depends_on = {"a"}
    /\ normalize_call[1].source.steps[2].depends_on = {"a"}
    /\ normalize_call[1].source.steps[3].depends_on = {}
    /\ ~normalize_call[1].first[1].ok
    /\ normalize_call[1].first[1].cycle_keys = {"a", "b"}

\* C35: whenever a replay has set the projection cursor to seq N, every
\* outcome event with event_seq at most N is reflected in the snapshot of its
\* key: the key has a snapshot, and the snapshot is not older than the event;
\* so a lag of zero comes with an empty stale-key list.
C35_CursorCoversProjectedEvents ==
    outcome_projection_state # None =>
        /\ \A i \in 1..Len(outcome_events) :
              outcome_events[i].event_seq <= outcome_projection_state[1] =>
                  /\ KeyOf(outcome_events[i]) \in DOMAIN memory_trust
                  /\ memory_trust[KeyOf(outcome_events[i])].last_event_seq
                        >= outcome_events[i].event_seq
        /\ projector_check.lag_events = 0 => projector_check.stale_key_sample = {}

\* C36: a step whose provider call is recorded with status failed does not
\* end with step status succeeded, and no step that depends on it is
\* executed (none of them gets a provider call).
C36_FailedProviderCallFailsStep ==
    \A i \in 1..Len(provider_calls) :
        provider_calls[i].status = "failed" =>
            LET failed_step == steps[provider_calls[i].step_id] IN
            /\ failed_step.status # "succeeded"
            /\ \A j \in 1..Len(provider_calls) :
                  LET other == steps[provider_calls[j].step_id] IN
                  other.run_id = failed_step.run_id =>
                      \A r \in DOMAIN orch :
                          orch[r].run_id = other.run_id =>
                              failed_step.step_key
                                 \notin orch[r].wf.steps[other.step_index].depends_on

\* the event_hash emit_event computes from the material of a stored event
MaterialHash(e) ==
    hash_json(EventMaterial(e.event_id, e.run_id, e.step_id, e.event_type, e.occurred_at,
                            e.payload_hash, e.prev_event_hash))

\* C37: replay audit reports chain_valid=true for a run only if the event_hash
\* of every stored event of the run equals the hash of the event's own
\* material, its prev_event_hash included; an event stored with another
\* event_hash makes the audit report chain_valid=false.
C37_AuditRecomputesEventHashes ==
    \A run_id \in DOMAIN runs :
        replay_audit(run_id).chain_valid =>
            \A i \in 1..Len(trace_events) :
                trace_events[i].run_id = run_id =>
                    trace_events[i].event_hash = MaterialHash(trace_events[i])

\* C40: when two runs execute against the same trace store and their event
\* appends interleave in any order, the events of each run, in event_seq
\* order, form a valid hash chain (every event_hash is the hash of the
\* event's material, every prev_event_hash the event_hash of the run's
\* preceding event), and replay audit reports chain_valid=true for both runs.
C40_InterleavedRunsKeepTheirChains ==
    \A run_id \in DOMAIN runs :
        LET audit == replay_audit(run_id)
            own == SelectSeq(trace_events, LAMBDA e : e.run_id = run_id)
        IN /\ audit.chain_valid
           /\ audit.events = Len(own)
           /\ \A i \in 1..Len(own) :
                 /\ own[i].event_hash = MaterialHash(own[i])
                 /\ own[i].prev_event_hash
                       = IF i = 1 THEN None ELSE Some(own[i - 1].event_hash)
                 /\ i > 1 => own[i - 1].event_seq < own[i].event_seq

\* both calls have returned and their events alternate in event_seq order
C40_Witness ==
    /\ \A r \in DOMAIN orch : orch[r].pc = "aborted"
    /\ Len(trace_events) = 4
    /\ trace_events[1].run_id # trace_events[2].run_id
    /\ trace_events[2].run_id # trace_events[3].run_id
    /\ trace_events[3].run_id # trace_events[4].run_id
    /\ \A run_id \in DOMAIN runs : replay_audit(run_id).events = 2

\* a snapshot that projects every event recorded for key
SnapshotCurrent(key) ==
    /\ key \in DOMAIN memory_trust
    /\ list_events_for_key(key) # <<>>
    /\ memory_trust[key].last_event_seq
          = list_events_for_key(key)[Len(list_events_for_key(key))].event_seq

\* C38: once the events of a key are recorded and projected, no later
\* operation on the ruleset registry changes what a replay of those same
\* events yields: while no event is appended, the snapshot of the key stays
\* the one the first replay wrote.
C38_RecordedEventsProjectTheSame ==
    [][(SnapshotCurrent(<<1, 1>>) /\ outcome_events' = outcome_events)
          => memory_trust'[<<1, 1>>] = memory_trust[<<1, 1>>]]_vars

\* C39: the registry holds only rulesets that validation accepts, and under
\* them a full replay of the accepted events succeeds at every key: no
\* projection fails and no window counter breaks the CHECKs of memory_trust.
C39_ReplaySucceedsUnderValidRulesets ==
    /\ \A v \in DOMAIN outcome_rulesets : ruleset_validate(outcome_rulesets[v])
    /\ replay_failed_keys(keys_with_events_from(0)) = {}

====
